---- MODULE Spec2Model ----
(***************************************************************************)
(* Model of the 13rooms booking API: the booking write path (createBooking,*)
(* updateBooking, deleteBooking of bookings.controller.ts), the rooms read *)
(* path that fills the process-wide rooms cache, the activity log and the  *)
(* cache service.                                                          *)
(*                                                                         *)
(* Every handler is an async function: it runs synchronously up to an      *)
(* awaited pool.query, and other requests may run while it waits.  Each    *)
(* action below is one such run-to-the-next-await of one request, executing*)
(* the SQL statement it ends in against the tables (one statement is       *)
(* atomic in the database; no handler opens a transaction).                *)
(*                                                                         *)
(* Wall-clock DATETIME values are modelled as seconds since 00:00 of day 0;*)
(* MySQL compares DATETIME values chronologically.  Storage calls do not   *)
(* fail in this model except where a constraint of init-db.sql rejects the *)
(* statement.                                                              *)
(***************************************************************************)
EXTENDS Integers, Sequences, FiniteSets, TLC

VARIABLES
    room,             \* table `room`: id -> stored status
    booking,          \* table `booking`: id -> row
    nextId,           \* AUTO_INCREMENT counter of table `booking`
    activityLog,      \* table `activity_log`, in insertion order
    cachedRoomsData,  \* cache.service.ts: <<>> is null, <<data>> is data
    cacheTimestamp,   \* cache.service.ts: Date.now() of the last fill, 0 if none
    now,              \* the server clock, in seconds since 00:00 of day 0
    req               \* the requests in flight, one per connection

vars == <<room, booking, nextId, activityLog, cachedRoomsData, cacheTimestamp, now, req>>

(***************************************************************************)
(* Bounds of the model.                                                    *)
(***************************************************************************)
MaxBookings == 2   \* CREATE records the activity log may hold
MaxUpdates  == 2   \* UPDATE records the activity log may hold

(***************************************************************************)
(* Values.                                                                 *)
(***************************************************************************)
NULL    == "null"
NullStr == <<>>              \* a null / empty / undefined string
None    == <<>>              \* an absent optional field
Some(v) == <<v>>
IsSome(o) == o # <<>>
Val(o)  == o[1]

NoUser  == [id |-> NULL, role |-> "none"]         \* req.user undefined
Alice   == [id |-> "alice", role |-> "user"]
Bob     == [id |-> "bob", role |-> "user"]
Root    == [id |-> "root", role |-> "admin"]

ExistingRooms == {1, 2}
RequestRoomIds == {1, 2, 3}   \* 3 is the id of no room

TimesOfDay == {<<9, 0>>, <<10, 0>>, <<11, 0>>}    \* HH:mm

(***************************************************************************)
(* bookings.controller.ts: string validation.                              *)
(***************************************************************************)
TitleMinLen   == 2
TitleMaxLen   == 200
CommentMaxLen == 1000

RECURSIVE TrimLeft(_)
TrimLeft(s) == IF s # <<>> /\ Head(s) = " " THEN TrimLeft(Tail(s)) ELSE s

RECURSIVE TrimRight(_)
TrimRight(s) ==
    IF s # <<>> /\ s[Len(s)] = " " THEN TrimRight(SubSeq(s, 1, Len(s) - 1)) ELSE s

Trim(s) == TrimRight(TrimLeft(s))

\* validator.escape: the HTML-significant characters become entities
EscapeChar(c) ==
    CASE c = "<" -> <<"&", "l", "t", ";">>
      [] c = ">" -> <<"&", "g", "t", ";">>
      [] c = "&" -> <<"&", "a", "m", "p", ";">>
      [] OTHER   -> <<c>>

RECURSIVE Escape(_)
Escape(s) == IF s = <<>> THEN <<>> ELSE EscapeChar(Head(s)) \o Escape(Tail(s))

sanitizeInput(input) ==
    IF input = NullStr THEN NullStr
    ELSE LET trimmed == Trim(input)
         IN  IF trimmed = <<>> THEN NullStr ELSE Escape(trimmed)

\* [ok |-> FALSE] stands for the thrown Error
validateAndSanitizeTitle(title) ==
    LET sanitized == sanitizeInput(title)
    IN  IF sanitized = NullStr \/ Len(sanitized) < TitleMinLen
        THEN [ok |-> FALSE, value |-> NullStr]
        ELSE IF Len(sanitized) > TitleMaxLen
        THEN [ok |-> FALSE, value |-> NullStr]
        ELSE [ok |-> TRUE, value |-> sanitized]

validateAndSanitizeComment(comment) ==
    LET sanitized == sanitizeInput(comment)
    IN  IF sanitized # NullStr /\ Len(sanitized) > CommentMaxLen
        THEN [ok |-> FALSE, value |-> NullStr]
        ELSE [ok |-> TRUE, value |-> sanitized]

(***************************************************************************)
(* Wall-clock timestamps.                                                  *)
(***************************************************************************)
\* `${date} ${startTime}:00` read as a DATETIME: seconds since 00:00 of day 0
CombineDateTime(date, hhmm) == ((date * 24 + hhmm[1]) * 60 + hhmm[2]) * 60

\* the time strings of a request body: the separate fields win over the
\* combined ones; <<>> when neither pair is complete
TimeStrings(body) ==
    IF IsSome(body.date) /\ IsSome(body.startTime) /\ IsSome(body.endTime)
    THEN Some([start |-> CombineDateTime(Val(body.date), Val(body.startTime)),
               end   |-> CombineDateTime(Val(body.date), Val(body.endTime))])
    ELSE IF IsSome(body.start_time) /\ IsSome(body.end_time)
    THEN Some([start |-> Val(body.start_time), end |-> Val(body.end_time)])
    ELSE None

\* date-utils: seconds from start to end
calculateSecondsBetweenNaive(start, end) == end - start

(***************************************************************************)
(* Storage: the SQL statements the handlers issue.                         *)
(***************************************************************************)
\* SELECT status FROM room WHERE id = ?
roomStatusRows(roomTbl, room_id) ==
    IF room_id \in DOMAIN roomTbl THEN <<roomTbl[room_id]>> ELSE <<>>

\* the conflict SELECT with its parameters bound as [room_id, start, end]
createConflictRowsSwapped(bookingTbl, room_id, start, end) ==
    {i \in DOMAIN bookingTbl :
        /\ bookingTbl[i].room_id = room_id
        /\ bookingTbl[i].start_time < start
        /\ bookingTbl[i].end_time > end
        /\ bookingTbl[i].status = "confirmed"}

\* the conflict SELECT with <= and >= for < and >
createConflictRowsInclusive(bookingTbl, room_id, start, end) ==
    {i \in DOMAIN bookingTbl :
        /\ bookingTbl[i].room_id = room_id
        /\ bookingTbl[i].start_time <= end
        /\ bookingTbl[i].end_time >= start
        /\ bookingTbl[i].status = "confirmed"}

\* the conflict SELECT without AND status = 'confirmed'
createConflictRowsAnyStatus(bookingTbl, room_id, start, end) ==
    {i \in DOMAIN bookingTbl :
        /\ bookingTbl[i].room_id = room_id
        /\ bookingTbl[i].start_time < end
        /\ bookingTbl[i].end_time > start}

\* createBooking: SELECT ... FROM booking WHERE room_id = ? AND start_time < ?
\* AND end_time > ? AND status = 'confirmed', bound to [room_id, end, start]
createConflictRows(bookingTbl, room_id, start, end) ==
    {i \in DOMAIN bookingTbl :
        /\ bookingTbl[i].room_id = room_id
        /\ bookingTbl[i].start_time < end
        /\ bookingTbl[i].end_time > start
        /\ bookingTbl[i].status = "confirmed"}

\* the reschedule SELECT without AND id != ?
updateConflictRowsWithSelf(bookingTbl, targetRoomId, id, start, end) ==
    {i \in DOMAIN bookingTbl :
        /\ bookingTbl[i].room_id = targetRoomId
        /\ bookingTbl[i].start_time < end
        /\ bookingTbl[i].end_time > start
        /\ bookingTbl[i].status = "confirmed"}

\* updateBooking: the same SELECT with AND id != ?, bound to
\* [targetRoomId, id, end, start]
updateConflictRows(bookingTbl, targetRoomId, id, start, end) ==
    {i \in DOMAIN bookingTbl :
        /\ bookingTbl[i].room_id = targetRoomId
        /\ i # id
        /\ bookingTbl[i].start_time < end
        /\ bookingTbl[i].end_time > start
        /\ bookingTbl[i].status = "confirmed"}

\* SELECT created_by, room_id, ... FROM booking WHERE id = ?
bookingRows(bookingTbl, id) ==
    IF id \in DOMAIN bookingTbl THEN <<bookingTbl[id]>> ELSE <<>>

\* the conflict object of a 409 response, built from a row of the SELECT
conflictPayload(row) ==
    [title |-> row.title, start_time |-> row.start_time, end_time |-> row.end_time]

\* INSERT INTO booking (...) VALUES (...): the row createBooking writes
insertBooking(bookingTbl, id, room_id, title, start, end, comment, createdBy) ==
    [i \in DOMAIN bookingTbl \cup {id} |->
        IF i = id
        THEN [room_id |-> room_id, title |-> title, start_time |-> start,
              end_time |-> end, comment |-> comment, created_by |-> createdBy,
              status |-> "confirmed"]
        ELSE bookingTbl[i]]

\* DELETE FROM booking WHERE id = ?
deleteRow(bookingTbl, id) == [i \in DOMAIN bookingTbl \ {id} |-> bookingTbl[i]]

\* ActivityLogService.logActivity: INSERT INTO activity_log
logActivity(log, userId, actionType, entityType, entityId) ==
    Append(log, [user_id |-> userId, action_type |-> actionType,
                 entity_type |-> entityType, entity_id |-> entityId,
                 timestamp |-> now])

(***************************************************************************)
(* Requests.                                                               *)
(***************************************************************************)
Idle ==
    [op |-> "idle", pc |-> "idle", user |-> NoUser, id |-> 0, body |-> <<>>,
     title |-> NullStr, comment |-> NullStr, start |-> 0, end |-> 0,
     targetRoomId |-> 0, row |-> <<>>, roomRows |-> <<>>, at |-> 0, status |-> 0,
     message |-> "", conflict |-> <<>>, data |-> <<>>]

\* res.status(code).json(...): the response is sent and the handler returns
Respond(r, code, message) ==
    [r EXCEPT !.pc = "done", !.status = code, !.message = message]

RespondConflict(r, row) ==
    [r EXCEPT !.pc = "done", !.status = 409, !.message = "conflict",
              !.conflict = Some(conflictPayload(row))]

\* the activity-log records of one action type
Records(log, actionType) ==
    Cardinality({k \in DOMAIN log : log[k].action_type = actionType})

InFlight(op) == Cardinality({p \in DOMAIN req : req[p].op = op /\ req[p].pc # "done"})

\* the title createBooking validates: req.user decides which field is preferred
rawTitle(user, body) ==
    IF user.id # NULL
    THEN body.title
    ELSE IF body.guestName # NullStr THEN body.guestName ELSE body.title
(***************************************************************************)
(* cache.service.ts                                                        *)
(***************************************************************************)
CACHE_TTL_MS == 45000

\* an invalidation that forgets the data and keeps the timestamp
invalidateRoomsCacheDataOnly ==
    /\ cachedRoomsData' = <<>>
    /\ UNCHANGED cacheTimestamp

invalidateRoomsCache ==
    /\ cachedRoomsData' = <<>>
    /\ cacheTimestamp' = 0

(***************************************************************************)
(* createBooking                                                           *)
(***************************************************************************)
\* the gate with a status test that knows 'inactive' only
roomGateInactiveOnly(roomTbl, room_id) ==
    IF room_id \notin DOMAIN roomTbl THEN "not_found"
    ELSE IF roomTbl[room_id] = "inactive" THEN "unavailable"
    ELSE "ok"

\* the room-availability gate: the response it rejects with, "ok" otherwise
roomGate(roomTbl, room_id) ==
    LET roomStatusRows_ == roomStatusRows(roomTbl, room_id)
    IN  IF roomStatusRows_ = <<>> THEN "not_found"
        ELSE IF roomStatusRows_[1] = "inactive" \/ roomStatusRows_[1] = "maintenance"
        THEN "unavailable"
        ELSE "ok"

\* the synchronous validation of createBooking: the 400 it returns, "ok" otherwise
\* the validation of createBooking with durationSeconds < 0 for <= 0
createValidationNegativeOnly(user, body) ==
    IF ~validateAndSanitizeTitle(rawTitle(user, body)).ok THEN "title"
    ELSE IF ~validateAndSanitizeComment(body.comment).ok THEN "comment"
    ELSE IF ~IsSome(TimeStrings(body)) THEN "required_fields"
    ELSE IF ~IsSome(body.room_id) \/ Val(body.room_id) = 0 THEN "room_id"
    ELSE IF calculateSecondsBetweenNaive(Val(TimeStrings(body)).start,
                                         Val(TimeStrings(body)).end) < 0
    THEN "end_not_after_start"
    ELSE "ok"

\* lines 231-282: the checks of createBooking before its first query
createValidation(user, body) ==
    IF ~validateAndSanitizeTitle(rawTitle(user, body)).ok THEN "title"
    ELSE IF ~validateAndSanitizeComment(body.comment).ok THEN "comment"
    ELSE IF ~IsSome(TimeStrings(body)) THEN "required_fields"
    ELSE IF ~IsSome(body.room_id) \/ Val(body.room_id) = 0 THEN "room_id"
    ELSE IF calculateSecondsBetweenNaive(Val(TimeStrings(body)).start,
                                         Val(TimeStrings(body)).end) <= 0
    THEN "end_not_after_start"
    ELSE "ok"

\* lines 202-305: validation, then SELECT status FROM room and the room gate
createBooking(p, user, body) ==
    /\ req[p].pc = "idle"
    /\ Records(activityLog, "CREATE") + InFlight("create") < MaxBookings
    /\ LET r0 == [Idle EXCEPT !.op = "create", !.user = user, !.body = body]
           v  == createValidation(user, body)
       IN  req' = [req EXCEPT ![p] =
             IF v # "ok" THEN Respond(r0, 400, v)
             ELSE LET gate == roomGate(room, Val(body.room_id))
                  IN  IF gate = "not_found" THEN Respond(r0, 404, "room_not_found")
                      ELSE IF gate = "unavailable"
                      THEN Respond(r0, 400, "room_unavailable")
                      ELSE [r0 EXCEPT
                              !.pc = "c_check",
                              !.title = validateAndSanitizeTitle(rawTitle(user, body)).value,
                              !.comment = validateAndSanitizeComment(body.comment).value,
                              !.start = Val(TimeStrings(body)).start,
                              !.end = Val(TimeStrings(body)).end,
                              !.targetRoomId = Val(body.room_id)]]
    /\ UNCHANGED <<room, booking, nextId, activityLog, cachedRoomsData,
                   cacheTimestamp, now>>

\* lines 312-334: the conflict SELECT; existingBookings[0] is whichever row the
\* database returns first (the statement has no ORDER BY)
createCheck(p) ==
    /\ req[p].pc = "c_check"
    /\ LET r == req[p]
           existingBookings == createConflictRows(booking, r.targetRoomId, r.start, r.end)
       IN  IF existingBookings # {}
           THEN \E i \in existingBookings :
                    req' = [req EXCEPT ![p] = RespondConflict(r, booking[i])]
           ELSE req' = [req EXCEPT ![p].pc = "c_insert"]
    /\ UNCHANGED <<room, booking, nextId, activityLog, cachedRoomsData,
                   cacheTimestamp, now>>

\* an INSERT INTO booking whose request is answered by the catch block
createInsertThenThrow(p) ==
    /\ req[p].pc = "c_insert"
    /\ LET r == req[p]
       IN  /\ booking' = insertBooking(booking, nextId, r.targetRoomId, r.title,
                                       r.start, r.end, r.comment, r.user.id)
           /\ nextId' = nextId + 1
           /\ req' = [req EXCEPT ![p] = Respond([r EXCEPT !.id = nextId], 500,
                                               "server_error")]
    /\ UNCHANGED <<room, activityLog, cachedRoomsData, cacheTimestamp, now>>

\* lines 337-367: INSERT INTO booking; fk_booking_room rejects a room_id that
\* is no room, which the catch block answers with 500
createInsert(p) ==
    /\ req[p].pc = "c_insert"
    /\ LET r == req[p]
       IN  IF r.targetRoomId \in DOMAIN room
           THEN /\ booking' = insertBooking(booking, nextId, r.targetRoomId, r.title,
                                            r.start, r.end, r.comment, r.user.id)
                /\ nextId' = nextId + 1
                /\ req' = [req EXCEPT ![p].pc = "c_finish", ![p].id = nextId]
           ELSE /\ req' = [req EXCEPT ![p] = Respond(r, 500, "server_error")]
                /\ UNCHANGED <<booking, nextId>>
    /\ UNCHANGED <<room, activityLog, cachedRoomsData, cacheTimestamp, now>>

\* lines 370-386: the activity-log insert, then invalidateRoomsCache and 201
createFinish(p) ==
    /\ req[p].pc = "c_finish"
    /\ activityLog' = logActivity(activityLog, req[p].user.id, "CREATE", "BOOKING",
                                  req[p].id)
    /\ invalidateRoomsCache
    /\ req' = [req EXCEPT ![p] = Respond(req[p], 201, "created")]
    /\ UNCHANGED <<room, booking, nextId, now>>

(***************************************************************************)
(* deleteBooking                                                           *)
(***************************************************************************)
\* an owner-or-admin check that lets everyone modify a booking of no creator
mayModifyGuestBooking(user, row) ==
    user.role = "admin" \/ row.created_by = user.id \/ row.created_by = NULL

\* owner-or-admin check of updateBooking and deleteBooking
mayModify(user, row) == user.role = "admin" \/ row.created_by = user.id

\* a deleteBooking that answers an id without a row like a finished delete
deleteBookingOfAnyId(p, user, id) ==
    /\ req[p].pc = "idle"
    /\ LET r0 == [Idle EXCEPT !.op = "delete", !.user = user, !.id = id]
           rows == bookingRows(booking, id)
       IN  IF rows = <<>>
           THEN /\ activityLog' = logActivity(activityLog, user.id, "DELETE", "BOOKING", id)
                /\ invalidateRoomsCache
                /\ req' = [req EXCEPT ![p] = Respond(r0, 200, "deleted")]
           ELSE /\ req' = [req EXCEPT ![p] =
                     IF ~mayModify(user, rows[1]) THEN Respond(r0, 403, "not_owner")
                     ELSE [r0 EXCEPT !.pc = "d_delete", !.row = rows]]
                /\ UNCHANGED <<activityLog, cachedRoomsData, cacheTimestamp>>
    /\ UNCHANGED <<room, booking, nextId, now>>

\* lines 706-731: the SELECT by id and the ownership check
deleteBooking(p, user, id) ==
    /\ req[p].pc = "idle"
    /\ LET r0 == [Idle EXCEPT !.op = "delete", !.user = user, !.id = id]
           rows == bookingRows(booking, id)
       IN  req' = [req EXCEPT ![p] =
             IF user = NoUser THEN Respond(r0, 401, "authentication_required")
             ELSE IF rows = <<>> THEN Respond(r0, 404, "booking_not_found")
             ELSE IF ~mayModify(user, rows[1]) THEN Respond(r0, 403, "not_owner")
             ELSE [r0 EXCEPT !.pc = "d_delete", !.row = rows]]
    /\ UNCHANGED <<room, booking, nextId, activityLog, cachedRoomsData,
                   cacheTimestamp, now>>

\* lines 733-740: DELETE FROM booking; affectedRows is 0 when the row is gone
deleteStatement(p) ==
    /\ req[p].pc = "d_delete"
    /\ IF req[p].id \in DOMAIN booking
       THEN /\ booking' = deleteRow(booking, req[p].id)
            /\ req' = [req EXCEPT ![p].pc = "d_finish"]
       ELSE /\ req' = [req EXCEPT ![p] = Respond(req[p], 404, "booking_not_found")]
            /\ UNCHANGED booking
    /\ UNCHANGED <<room, nextId, activityLog, cachedRoomsData, cacheTimestamp, now>>

\* lines 742-757: the activity-log insert, then invalidateRoomsCache and 200
deleteFinish(p) ==
    /\ req[p].pc = "d_finish"
    /\ activityLog' = logActivity(activityLog, req[p].user.id, "DELETE", "BOOKING",
                                  req[p].id)
    /\ invalidateRoomsCache
    /\ req' = [req EXCEPT ![p] = Respond(req[p], 200, "deleted")]
    /\ UNCHANGED <<room, booking, nextId, now>>
(***************************************************************************)
(* updateBooking                                                           *)
(***************************************************************************)
\* UPDATE booking SET room_id = ?, name = ?, start_time = ?, end_time = ?,
\* comment = ? WHERE id = ?
rescheduleRow(bookingTbl, id, targetRoomId, title, start, end, comment) ==
    [bookingTbl EXCEPT ![id] =
        [@ EXCEPT !.room_id = targetRoomId, !.title = title, !.start_time = start,
                  !.end_time = end, !.comment = comment]]

\* UPDATE booking SET name = ?, comment = ? without WHERE id = ?
renameEveryRow(bookingTbl, id, title, comment) ==
    [i \in DOMAIN bookingTbl |->
        [bookingTbl[i] EXCEPT !.title = title, !.comment = comment]]

\* UPDATE booking SET name = ?, comment = ? WHERE id = ?
renameRow(bookingTbl, id, title, comment) ==
    [bookingTbl EXCEPT ![id] = [@ EXCEPT !.title = title, !.comment = comment]]

\* const isReschedule = start_time_string && end_time_string
isReschedule(body) == IsSome(TimeStrings(body))

\* a target room that is always the booking's current room
targetRoomCurrent(body, row) == row.room_id

\* const targetRoomId = room_id ?? booking.room_id
targetRoom(body, row) == IF IsSome(body.room_id) THEN Val(body.room_id) ELSE row.room_id

\* lines 520-605: validation, the SELECT by id, the ownership check and, for a
\* reschedule, the validation of the new interval
updateBooking(p, user, id, body) ==
    /\ req[p].pc = "idle"
    /\ Records(activityLog, "UPDATE") + InFlight("update") < MaxUpdates
    /\ LET r0 == [Idle EXCEPT !.op = "update", !.user = user, !.id = id, !.body = body]
           t  == validateAndSanitizeTitle(body.title)
           c  == validateAndSanitizeComment(body.comment)
           rows == bookingRows(booking, id)
           ts == TimeStrings(body)
           r1 == [r0 EXCEPT !.title = t.value, !.comment = c.value, !.row = rows]
       IN  req' = [req EXCEPT ![p] =
             IF user = NoUser THEN Respond(r0, 401, "authentication_required")
             ELSE IF ~t.ok THEN Respond(r0, 400, "title")
             ELSE IF ~c.ok THEN Respond(r0, 400, "comment")
             ELSE IF rows = <<>> THEN Respond(r0, 404, "booking_not_found")
             ELSE IF ~mayModify(user, rows[1]) THEN Respond(r0, 403, "not_owner")
             ELSE IF isReschedule(body)
             THEN IF calculateSecondsBetweenNaive(Val(ts).start, Val(ts).end) <= 0
                  THEN Respond(r0, 400, "end_not_after_start")
                  ELSE [r1 EXCEPT !.pc = "u_check", !.start = Val(ts).start,
                                  !.end = Val(ts).end,
                                  !.targetRoomId = targetRoom(body, rows[1])]
             ELSE [r1 EXCEPT !.pc = "u_simple"]]
    /\ UNCHANGED <<room, booking, nextId, activityLog, cachedRoomsData,
                   cacheTimestamp, now>>

\* lines 609-632: the conflict SELECT that leaves out the booking itself
updateCheck(p) ==
    /\ req[p].pc = "u_check"
    /\ LET r == req[p]
           existingBookings ==
               updateConflictRows(booking, r.targetRoomId, r.id, r.start, r.end)
       IN  IF existingBookings # {}
           THEN \E i \in existingBookings :
                    req' = [req EXCEPT ![p] = RespondConflict(r, booking[i])]
           ELSE req' = [req EXCEPT ![p].pc = "u_write"]
    /\ UNCHANGED <<room, booking, nextId, activityLog, cachedRoomsData,
                   cacheTimestamp, now>>

\* lines 635-643: the full UPDATE; no row matched is 404, and fk_booking_room
\* rejects a room_id that is no room (500 from the catch block)
updateWrite(p) ==
    /\ req[p].pc = "u_write"
    /\ LET r == req[p]
       IN  IF r.id \notin DOMAIN booking
           THEN /\ req' = [req EXCEPT ![p] = Respond(r, 404, "booking_not_found")]
                /\ UNCHANGED booking
           ELSE IF r.targetRoomId \notin DOMAIN room
           THEN /\ req' = [req EXCEPT ![p] = Respond(r, 500, "server_error")]
                /\ UNCHANGED booking
           ELSE /\ booking' = rescheduleRow(booking, r.id, r.targetRoomId, r.title,
                                            r.start, r.end, r.comment)
                /\ req' = [req EXCEPT ![p].pc = "u_finish_reschedule"]
    /\ UNCHANGED <<room, nextId, activityLog, cachedRoomsData, cacheTimestamp, now>>

\* lines 666-677: the title/comment UPDATE of a request that is no reschedule
updateSimple(p) ==
    /\ req[p].pc = "u_simple"
    /\ LET r == req[p]
       IN  IF r.id \notin DOMAIN booking
           THEN /\ req' = [req EXCEPT ![p] = Respond(r, 404, "booking_not_found")]
                /\ UNCHANGED booking
           ELSE /\ booking' = renameRow(booking, r.id, r.title, r.comment)
                /\ req' = [req EXCEPT ![p].pc = "u_finish_simple"]
    /\ UNCHANGED <<room, nextId, activityLog, cachedRoomsData, cacheTimestamp, now>>

\* lines 646-665 and 680-693: the activity-log insert, then
\* invalidateRoomsCache and the 200 response
updateFinish(p) ==
    /\ req[p].pc \in {"u_finish_reschedule", "u_finish_simple"}
    /\ activityLog' = logActivity(activityLog, req[p].user.id, "UPDATE", "BOOKING",
                                  req[p].id)
    /\ invalidateRoomsCache
    /\ req' = [req EXCEPT ![p] =
                 Respond(req[p], 200,
                         IF req[p].pc = "u_finish_reschedule" THEN "rescheduled"
                                                              ELSE "updated")]
    /\ UNCHANGED <<room, booking, nextId, now>>

(***************************************************************************)
(* rooms.controller.ts: getAllRooms                                        *)
(***************************************************************************)
\* normalizeRoomStatus without its 'maintenance' case
normalizeRoomStatusNoMaintenance(status) ==
    CASE status \in {"active", "available"}  -> "active"
      [] status \in {"inactive", "occupied"} -> "inactive"
      [] OTHER                               -> "active"

normalizeRoomStatus(status) ==
    CASE status \in {"active", "available"}  -> "active"
      [] status = "maintenance"              -> "maintenance"
      [] status \in {"inactive", "occupied"} -> "inactive"
      [] OTHER                               -> "active"

\* DATE(t), and the local hour of the Date t
dateOf(t) == t \div 86400
hourOf(t) == (t \div 3600) % 24

\* Date.now(), in milliseconds
DateNow == now * 1000

updateRoomsCache(data) ==
    /\ cachedRoomsData' = Some(data)
    /\ cacheTimestamp' = DateNow

Belegt == <<"B", "e", "l", "e", "g", "t">>

\* SELECT ... FROM booking WHERE (DATE(start_time) = CURDATE() OR
\* DATE(end_time) = CURDATE()) AND status = 'confirmed'
todayBookingIds(bookingTbl, curdate) ==
    {i \in DOMAIN bookingTbl :
        /\ dateOf(bookingTbl[i].start_time) = curdate
           \/ dateOf(bookingTbl[i].end_time) = curdate
        /\ bookingTbl[i].status = "confirmed"}

\* ORDER BY start_time ASC (rows of equal start_time in id order)
RECURSIVE orderByStartTime(_, _)
orderByStartTime(ids, bookingTbl) ==
    IF ids = {} THEN <<>>
    ELSE LET first == CHOOSE i \in ids : \A j \in ids :
                          \/ bookingTbl[i].start_time < bookingTbl[j].start_time
                          \/ /\ bookingTbl[i].start_time = bookingTbl[j].start_time
                             /\ i <= j
         IN  <<[id |-> first, room_id |-> bookingTbl[first].room_id,
                title |-> bookingTbl[first].title,
                start_time |-> bookingTbl[first].start_time,
                end_time |-> bookingTbl[first].end_time,
                comment |-> bookingTbl[first].comment]>>
             \o orderByStartTime(ids \ {first}, bookingTbl)

\* lines 111-135: guests get 'Belegt' and a null comment
anonymize(isGuest, row) ==
    IF isGuest
    THEN [id |-> row.id, room_id |-> row.room_id, title |-> Belegt,
          start_time |-> row.start_time, end_time |-> row.end_time,
          comment |-> NullStr]
    ELSE row

RECURSIVE SumMinutes(_)
SumMinutes(s) ==
    IF s = <<>> THEN 0
    ELSE ((Head(s).end_time - Head(s).start_time) * 1000) \div (1000 * 60)
         + SumMinutes(Tail(s))

\* the object of one room with the last future booking as nextBooking
roomWithBookingInfoLastFuture(id, status, allBookings, at) ==
    LET inRoom(b) == b.room_id = id
        roomBookings == SelectSeq(allBookings, inRoom)
        isCurrentlyBooked(b) == b.start_time <= at /\ b.end_time > at
        isFuture(b) == b.start_time > at
        futureBookingsToday == SelectSeq(roomBookings, isFuture)
        currentBookings == SelectSeq(roomBookings, isCurrentlyBooked)
        isOutsideBusinessHours == hourOf(at) < 8 \/ hourOf(at) >= 20
    IN  [id |-> id,
         status |-> IF isOutsideBusinessHours THEN "night_rest" ELSE status,
         currentBooking |-> IF currentBookings # <<>>
                            THEN Some(currentBookings[1]) ELSE None,
         nextBooking |-> IF futureBookingsToday # <<>>
                         THEN Some(futureBookingsToday[Len(futureBookingsToday)])
                         ELSE None,
         totalBookingsToday |-> Len(roomBookings),
         totalBookedMinutesToday |-> SumMinutes(roomBookings),
         allBookingsToday |-> roomBookings]

\* lines 137-196: the object built for one room from the bookings of the day
roomWithBookingInfo(id, status, allBookings, at) ==
    LET inRoom(b) == b.room_id = id
        roomBookings == SelectSeq(allBookings, inRoom)
        isCurrentlyBooked(b) == b.start_time <= at /\ b.end_time > at
        isFuture(b) == b.start_time > at
        futureBookingsToday == SelectSeq(roomBookings, isFuture)
        currentBookings == SelectSeq(roomBookings, isCurrentlyBooked)
        isOutsideBusinessHours == hourOf(at) < 8 \/ hourOf(at) >= 20
    IN  [id |-> id,
         status |-> IF isOutsideBusinessHours THEN "night_rest" ELSE status,
         currentBooking |-> IF currentBookings # <<>>
                            THEN Some(currentBookings[1]) ELSE None,
         nextBooking |-> IF futureBookingsToday # <<>>
                         THEN Some(futureBookingsToday[1]) ELSE None,
         totalBookingsToday |-> Len(roomBookings),
         totalBookedMinutesToday |-> SumMinutes(roomBookings),
         allBookingsToday |-> roomBookings]

\* lines 76-89: now = Date.now(); a cache hit answers at once with what the
\* cache holds, whoever asks; a miss reads the rooms
getAllRooms(p, user) ==
    /\ req[p].pc = "idle"
    /\ LET r0 == [Idle EXCEPT !.op = "rooms", !.user = user, !.at = now]
       IN  req' = [req EXCEPT ![p] =
             IF cachedRoomsData # <<>> /\ (DateNow - cacheTimestamp) < CACHE_TTL_MS
             THEN [Respond(r0, 200, "cache_hit") EXCEPT !.data = cachedRoomsData]
             ELSE [r0 EXCEPT !.pc = "g_bookings",
                             !.roomRows = [i \in DOMAIN room |->
                                              normalizeRoomStatus(room[i])]]]
    /\ UNCHANGED <<room, booking, nextId, activityLog, cachedRoomsData,
                   cacheTimestamp, now>>

\* lines 91-109: now = new Date(), then the bookings of today are read
getAllRoomsBookings(p) ==
    /\ req[p].pc = "g_bookings"
    /\ req' = [req EXCEPT ![p].pc = "g_respond", ![p].at = now,
                          ![p].data = orderByStartTime(
                                          todayBookingIds(booking, dateOf(now)), booking)]
    /\ UNCHANGED <<room, booking, nextId, activityLog, cachedRoomsData,
                   cacheTimestamp, now>>

\* a getAllRooms that writes the status it displays back to the rooms
getAllRoomsRespondPersisting(p) ==
    /\ req[p].pc = "g_respond"
    /\ LET r == req[p]
           isGuest == r.user = NoUser
           allBookings == [k \in DOMAIN r.data |-> anonymize(isGuest, r.data[k])]
           finalRoomsWithBookingInfo ==
               [i \in DOMAIN r.roomRows |->
                   roomWithBookingInfo(i, r.roomRows[i], allBookings, r.at)]
       IN  /\ updateRoomsCache(finalRoomsWithBookingInfo)
           /\ room' = [i \in DOMAIN room |->
                          IF i \in DOMAIN r.roomRows
                          THEN finalRoomsWithBookingInfo[i].status ELSE room[i]]
           /\ req' = [req EXCEPT ![p] =
                        [Respond(r, 200, "cache_miss") EXCEPT
                            !.data = Some(finalRoomsWithBookingInfo)]]
    /\ UNCHANGED <<booking, nextId, activityLog, now>>

\* lines 111-225: the projection, updateRoomsCache and the response
getAllRoomsRespond(p) ==
    /\ req[p].pc = "g_respond"
    /\ LET r == req[p]
           isGuest == r.user = NoUser
           allBookings == [k \in DOMAIN r.data |-> anonymize(isGuest, r.data[k])]
           finalRoomsWithBookingInfo ==
               [i \in DOMAIN r.roomRows |->
                   roomWithBookingInfo(i, r.roomRows[i], allBookings, r.at)]
       IN  /\ updateRoomsCache(finalRoomsWithBookingInfo)
           /\ req' = [req EXCEPT ![p] =
                        [Respond(r, 200, "cache_miss") EXCEPT
                            !.data = Some(finalRoomsWithBookingInfo)]]
    /\ UNCHANGED <<room, booking, nextId, activityLog, now>>

(***************************************************************************)
(* checkBookingConflict and getAvailableRooms                              *)
(***************************************************************************)
Query(date, startTime, endTime) ==
    [date |-> date, startTime |-> startTime, endTime |-> endTime]

\* the probe SELECT without WHERE room_id = ?
probeConflictRowsAnyRoom(bookingTbl, roomId, requestedStart, requestedEnd) ==
    {i \in DOMAIN bookingTbl :
        /\ bookingTbl[i].start_time < requestedEnd
        /\ bookingTbl[i].end_time > requestedStart
        /\ bookingTbl[i].status = "confirmed"}

\* checkBookingConflict: SELECT ... WHERE room_id = ? AND start_time < ? AND
\* end_time > ? AND status = 'confirmed', bound to [roomId, requestedEnd,
\* requestedStart]
probeConflictRows(bookingTbl, roomId, requestedStart, requestedEnd) ==
    {i \in DOMAIN bookingTbl :
        /\ bookingTbl[i].room_id = roomId
        /\ bookingTbl[i].start_time < requestedEnd
        /\ bookingTbl[i].end_time > requestedStart
        /\ bookingTbl[i].status = "confirmed"}

\* bookings.controller.ts lines 398-460
checkBookingConflict(p, user, roomId, query) ==
    /\ req[p].pc = "idle"
    /\ LET r0 == [Idle EXCEPT !.op = "probe", !.user = user, !.body = query,
                              !.targetRoomId = roomId]
       IN  IF ~IsSome(query.date) \/ ~IsSome(query.startTime) \/ ~IsSome(query.endTime)
           THEN req' = [req EXCEPT ![p] = Respond(r0, 400, "required_fields")]
           ELSE LET requestedStart == CombineDateTime(Val(query.date), Val(query.startTime))
                    requestedEnd == CombineDateTime(Val(query.date), Val(query.endTime))
                    r1 == [r0 EXCEPT !.start = requestedStart, !.end = requestedEnd]
                    rows == probeConflictRows(booking, roomId, requestedStart, requestedEnd)
                IN  IF rows # {}
                    THEN \E i \in rows :
                           req' = [req EXCEPT ![p] =
                             [Respond(r1, 200, "conflict") EXCEPT
                                !.data = Some(anonymize(user = NoUser,
                                    [id |-> i, room_id |-> booking[i].room_id,
                                     title |-> booking[i].title,
                                     start_time |-> booking[i].start_time,
                                     end_time |-> booking[i].end_time,
                                     comment |-> booking[i].comment]))]]
                    ELSE req' = [req EXCEPT ![p] = Respond(r1, 200, "free")]
    /\ UNCHANGED <<room, booking, nextId, activityLog, cachedRoomsData,
                   cacheTimestamp, now>>

\* the SELECT of the occupied rooms with <= for <
occupiedRoomIdsInclusive(bookingTbl, requestedStart, requestedEnd) ==
    {bookingTbl[i].room_id : i \in
        {j \in DOMAIN bookingTbl :
            /\ bookingTbl[j].start_time <= requestedEnd
            /\ bookingTbl[j].end_time > requestedStart
            /\ bookingTbl[j].status = "confirmed"}}

\* getAvailableRooms: SELECT room_id FROM booking WHERE (start_time < ? AND
\* end_time > ?) AND status = 'confirmed', bound to [requestedEnd, requestedStart]
occupiedRoomIds(bookingTbl, requestedStart, requestedEnd) ==
    {bookingTbl[i].room_id : i \in
        {j \in DOMAIN bookingTbl :
            /\ bookingTbl[j].start_time < requestedEnd
            /\ bookingTbl[j].end_time > requestedStart
            /\ bookingTbl[j].status = "confirmed"}}

\* rooms.controller.ts lines 514-534: validation and the SELECT of all rooms
getAvailableRooms(p, query) ==
    /\ req[p].pc = "idle"
    /\ LET r0 == [Idle EXCEPT !.op = "available", !.body = query]
       IN  req' = [req EXCEPT ![p] =
             IF ~IsSome(query.date) \/ ~IsSome(query.startTime) \/ ~IsSome(query.endTime)
             THEN Respond(r0, 400, "required_fields")
             ELSE [r0 EXCEPT !.pc = "a_bookings",
                             !.start = CombineDateTime(Val(query.date), Val(query.startTime)),
                             !.end = CombineDateTime(Val(query.date), Val(query.endTime)),
                             !.roomRows = room]]
    /\ UNCHANGED <<room, booking, nextId, activityLog, cachedRoomsData,
                   cacheTimestamp, now>>

\* lines 536-561: the SELECT of the occupied rooms and the filter
getAvailableRoomsRespondAnyStatus(p) ==
    /\ req[p].pc = "a_bookings"
    /\ LET r == req[p]
           occupied == occupiedRoomIds(booking, r.start, r.end)
           availableRooms == {i \in DOMAIN r.roomRows : i \notin occupied}
       IN  req' = [req EXCEPT ![p] =
                     [Respond(r, 200, "available") EXCEPT !.data = Some(availableRooms)]]
    /\ UNCHANGED <<room, booking, nextId, activityLog, cachedRoomsData,
                   cacheTimestamp, now>>

getAvailableRoomsRespond(p) ==
    /\ req[p].pc = "a_bookings"
    /\ LET r == req[p]
           occupied == occupiedRoomIds(booking, r.start, r.end)
           availableRooms ==
               {i \in DOMAIN r.roomRows :
                   /\ i \notin occupied
                   /\ normalizeRoomStatus(r.roomRows[i]) = "active"}
       IN  req' = [req EXCEPT ![p] =
                     [Respond(r, 200, "available") EXCEPT !.data = Some(availableRooms)]]
    /\ UNCHANGED <<room, booking, nextId, activityLog, cachedRoomsData,
                   cacheTimestamp, now>>

(***************************************************************************)
(* The connection of a request is free again once its response is sent.    *)
(***************************************************************************)
responseSent(p) ==
    /\ req[p].pc = "done"
    /\ req' = [req EXCEPT ![p] = Idle]
    /\ UNCHANGED <<room, booking, nextId, activityLog, cachedRoomsData,
                   cacheTimestamp, now>>

(***************************************************************************)
(* Request inputs.                                                         *)
(***************************************************************************)
Body(room_id, title, guestName, comment, date, startTime, endTime, start_time, end_time) ==
    [room_id |-> room_id, title |-> title, guestName |-> guestName,
     comment |-> comment, date |-> date, startTime |-> startTime,
     endTime |-> endTime, start_time |-> start_time, end_time |-> end_time]

TitleAB    == <<"a", "b">>
TitleCD    == <<" ", "c", "d", " ">>
TitleShort == <<"x">>
CommentK   == <<"k">>

\* title and comment as they are sent together
MetaInputs == {[title |-> TitleAB, comment |-> NullStr],
               [title |-> TitleCD, comment |-> CommentK]}

\* requested intervals: every pair of clock times with end after start, one
\* with end equal to start and one with end before start
Intervals ==
    {<<s, e>> \in TimesOfDay \X TimesOfDay : s[1] < e[1]}
    \cup {<<<<9, 0>>, <<9, 0>>>>, <<<<10, 0>>, <<9, 0>>>>}

\* createBooking bodies: the separate date/startTime/endTime format over every
\* room id and interval; one body in the combined format, one guest body, and
\* bodies that fail validation
CreateBodies ==
    {Body(Some(r), TitleAB, NullStr, NullStr, Some(0), Some(iv[1]), Some(iv[2]),
          None, None) :
        r \in RequestRoomIds, iv \in Intervals}
    \cup {Body(Some(1), TitleAB, NullStr, NullStr, None, None, None,
               Some(CombineDateTime(0, <<9, 0>>)), Some(CombineDateTime(0, <<10, 0>>))),
          Body(Some(1), TitleShort, NullStr, NullStr, Some(0), Some(<<9, 0>>),
               Some(<<10, 0>>), None, None),
          Body(Some(1), TitleAB, NullStr, NullStr, Some(0), Some(<<9, 0>>),
               None, None, None),
          Body(None, TitleAB, NullStr, NullStr, Some(0), Some(<<9, 0>>),
               Some(<<10, 0>>), None, None)}

\* updateBooking bodies: reschedules with and without room_id, title/comment
\* only, and bodies that supply part of the reschedule fields
UpdateBodies ==
    {Body(r, TitleAB, NullStr, NullStr, Some(0), Some(iv[1]), Some(iv[2]), None, None) :
        r \in {None} \cup {Some(x) : x \in RequestRoomIds}, iv \in Intervals}
    \cup {Body(None, m.title, NullStr, m.comment, None, None, None, None, None) :
            m \in MetaInputs}
    \cup {Body(None, TitleCD, NullStr, CommentK, None, None, None,
               Some(CombineDateTime(0, <<10, 0>>)), None),
          Body(None, TitleCD, NullStr, CommentK, None, None, None,
               None, Some(CombineDateTime(0, <<10, 0>>))),
          Body(Some(2), TitleCD, NullStr, CommentK, None, None, None, None, None),
          Body(None, TitleCD, NullStr, CommentK, Some(0), Some(<<10, 0>>), None,
               None, None),
          Body(None, TitleShort, NullStr, NullStr, None, None, None, None, None)}

Creators  == {Alice}
Modifiers == {Alice}
BookingIds == 1..MaxBookings
Viewers   == {NoUser}

Connections == {1, 2}

(***************************************************************************)
(* Specification: requests are served one at a time.                       *)
(***************************************************************************)
Init ==
    /\ room \in {[i \in ExistingRooms |-> IF i = 1 THEN "active" ELSE st] :
                    st \in {"maintenance", "inactive"}}
    /\ booking = <<>>
    /\ nextId = 1
    /\ activityLog = <<>>
    /\ cachedRoomsData = <<>>
    /\ cacheTimestamp = 0
    /\ now = CombineDateTime(0, <<10, 0>>)
    /\ req = [p \in Connections |-> Idle]

StepWrite(p) ==
    \/ createCheck(p)
    \/ createInsert(p)
    \/ createFinish(p)
    \/ updateCheck(p)
    \/ updateWrite(p)
    \/ updateSimple(p)
    \/ updateFinish(p)
    \/ deleteStatement(p)
    \/ deleteFinish(p)
    \/ responseSent(p)

StepRooms(p) ==
    \/ getAllRoomsBookings(p)
    \/ getAllRoomsRespond(p)

Begin(p) ==
    \/ \E user \in Creators, body \in CreateBodies : createBooking(p, user, body)
    \/ \E user \in Modifiers, id \in BookingIds, body \in UpdateBodies :
          updateBooking(p, user, id, body)
    \/ \E user \in Modifiers, id \in BookingIds : deleteBooking(p, user, id)
    \/ \E user \in Viewers : getAllRooms(p, user)

Next == Begin(1) \/ StepWrite(1) \/ StepRooms(1)

Spec == Init /\ [][Next]_vars

(***************************************************************************)
(* Specification: two requests in flight at once.  Their statements        *)
(* interleave in any order.                                                *)
(***************************************************************************)
ConcCreateIntervals == {<<<<9, 0>>, <<10, 0>>>>, <<<<10, 0>>, <<11, 0>>>>}

ConcUpdateIntervals == {<<<<9, 0>>, <<11, 0>>>>, <<<<10, 0>>, <<11, 0>>>>}

ConcCreateBodies ==
    {Body(Some(1), TitleAB, NullStr, NullStr, Some(0), Some(iv[1]), Some(iv[2]),
          None, None) : iv \in ConcCreateIntervals}

ConcUpdateBodies ==
    {Body(None, TitleAB, NullStr, NullStr, Some(0), Some(iv[1]), Some(iv[2]),
          None, None) : iv \in ConcUpdateIntervals}

BeginConc(p) ==
    \/ \E body \in ConcCreateBodies : createBooking(p, Alice, body)
    \/ \E id \in BookingIds, body \in ConcUpdateBodies : updateBooking(p, Alice, id, body)

StepConc(p) ==
    \/ createCheck(p)
    \/ createInsert(p)
    \/ createFinish(p)
    \/ updateCheck(p)
    \/ updateWrite(p)
    \/ updateFinish(p)
    \/ responseSent(p)

NextConc == \E p \in Connections : BeginConc(p) \/ StepConc(p)

SpecConc == Init /\ [][NextConc]_vars

(***************************************************************************)
(* Specification: the four conflict queries at minute resolution.  Room 1  *)
(* holds a booking from 10:00 to 11:00 and room 2 one from 11:00 to 12:00; *)
(* creates in room 1, reschedules, conflict probes and availability        *)
(* searches follow with intervals drawn from ProbeClock.                   *)
(***************************************************************************)
ProbeClock == {<<9, 0>>, <<10, 0>>, <<10, 1>>, <<10, 59>>, <<11, 0>>, <<12, 0>>}

ProbeIntervals ==
    {<<s, e>> \in ProbeClock \X ProbeClock : s[1] * 60 + s[2] < e[1] * 60 + e[2]}

WriteIntervals ==
    {<<<<9, 0>>, <<10, 0>>>>, <<<<9, 0>>, <<10, 1>>>>, <<<<10, 0>>, <<11, 0>>>>,
     <<<<10, 59>>, <<12, 0>>>>, <<<<11, 0>>, <<12, 0>>>>}

ProbeRooms == {1, 2}

ProbeCreateBodies ==
    {Body(Some(1), TitleAB, NullStr, NullStr, Some(0), Some(iv[1]), Some(iv[2]),
          None, None) : iv \in WriteIntervals}

ProbeUpdateBodies ==
    {Body(None, TitleAB, NullStr, NullStr, Some(0), Some(iv[1]), Some(iv[2]),
          None, None) : iv \in WriteIntervals}

ProbeQueries == {Query(Some(0), Some(iv[1]), Some(iv[2])) : iv \in ProbeIntervals}

InitOverlap ==
    /\ room \in {[i \in ExistingRooms |-> IF i = 1 THEN "active" ELSE st] :
                    st \in {"active", "maintenance", "inactive"}}
    /\ booking = insertBooking(
                    insertBooking(<<>>, 1, 1, TitleAB, CombineDateTime(0, <<10, 0>>),
                                  CombineDateTime(0, <<11, 0>>), NullStr, Bob.id),
                    2, 2, Trim(TitleCD), CombineDateTime(0, <<11, 0>>),
                    CombineDateTime(0, <<12, 0>>), CommentK, Alice.id)
    /\ nextId = 3
    /\ activityLog = <<>>
    /\ cachedRoomsData = <<>>
    /\ cacheTimestamp = 0
    /\ now = CombineDateTime(0, <<10, 0>>)
    /\ req = [p \in Connections |-> Idle]

BeginOverlap(p) ==
    \/ \E body \in ProbeCreateBodies : createBooking(p, Alice, body)
    \/ \E id \in BookingIds, body \in ProbeUpdateBodies : updateBooking(p, Root, id, body)
    \/ \E user \in {NoUser, Alice}, roomId \in ProbeRooms, query \in ProbeQueries :
          checkBookingConflict(p, user, roomId, query)
    \/ \E query \in ProbeQueries : getAvailableRooms(p, query)

StepOverlap(p) ==
    \/ createCheck(p)
    \/ createInsert(p)
    \/ createFinish(p)
    \/ updateCheck(p)
    \/ updateWrite(p)
    \/ updateFinish(p)
    \/ getAvailableRoomsRespond(p)
    \/ responseSent(p)

NextOverlap == BeginOverlap(1) \/ StepOverlap(1)

SpecOverlap == InitOverlap /\ [][NextOverlap]_vars

(***************************************************************************)
(* Specification: guests and authenticated principals read the rooms and   *)
(* the bookings while the clock passes 08:00 and 20:00.                    *)
(***************************************************************************)
\* bookings.controller.ts lines 118-195: the confirmed bookings of a room,
\* of one day when a date is given, ordered by start_time
getBookingsByRoomId(p, user, roomId, date) ==
    /\ req[p].pc = "idle"
    /\ LET r0 == [Idle EXCEPT !.op = "roomBookings", !.user = user,
                              !.targetRoomId = roomId]
           ids == {i \in DOMAIN booking :
                      /\ booking[i].room_id = roomId
                      /\ booking[i].status = "confirmed"
                      /\ IsSome(date) =>
                            /\ booking[i].start_time >= CombineDateTime(Val(date), <<0, 0>>)
                            /\ booking[i].start_time <=
                                   CombineDateTime(Val(date), <<23, 59>>) + 59}
           rows == orderByStartTime(ids, booking)
           processedBookings == [k \in DOMAIN rows |-> anonymize(user = NoUser, rows[k])]
       IN  req' = [req EXCEPT ![p] =
                     [Respond(r0, 200, "bookings") EXCEPT !.data = Some(processedBookings)]]
    /\ UNCHANGED <<room, booking, nextId, activityLog, cachedRoomsData,
                   cacheTimestamp, now>>

\* the instants the clock shows: around 08:00 and around 20:00, less and
\* more than CACHE_TTL_MS apart
ClockInstants ==
    {CombineDateTime(0, <<7, 59>>) + 30, CombineDateTime(0, <<8, 0>>),
     CombineDateTime(0, <<8, 0>>) + 20, CombineDateTime(0, <<19, 59>>) + 30,
     CombineDateTime(0, <<20, 0>>), CombineDateTime(0, <<20, 0>>) + 20}

\* time passes
tick ==
    /\ \E t \in ClockInstants : t > now /\ now' = t
    /\ UNCHANGED <<room, booking, nextId, activityLog, cachedRoomsData,
                   cacheTimestamp, req>>

ViewUsers == {NoUser, Alice}

ViewQueries == {Query(Some(0), Some(<<19, 0>>), Some(<<20, 0>>)),
                Query(Some(0), Some(<<9, 0>>), Some(<<10, 0>>))}

InitViews ==
    /\ room \in {[i \in ExistingRooms |-> IF i = 1 THEN "active" ELSE st] :
                    st \in {"active", "maintenance"}}
    /\ booking = insertBooking(
                    insertBooking(<<>>, 1, 1, TitleAB, CombineDateTime(0, <<19, 0>>),
                                  CombineDateTime(0, <<21, 0>>), CommentK, Alice.id),
                    2, 2, Trim(TitleCD), CombineDateTime(0, <<8, 0>>),
                    CombineDateTime(0, <<9, 0>>), NullStr, NULL)
    /\ nextId = 3
    /\ activityLog = <<>>
    /\ cachedRoomsData = <<>>
    /\ cacheTimestamp = 0
    /\ now = CombineDateTime(0, <<7, 59>>) + 30
    /\ req = [p \in Connections |-> Idle]

BeginViews(p) ==
    \/ \E user \in ViewUsers : getAllRooms(p, user)
    \/ \E user \in ViewUsers, roomId \in ExistingRooms, query \in ViewQueries :
          checkBookingConflict(p, user, roomId, query)
    \/ \E user \in ViewUsers, roomId \in ExistingRooms, date \in {None, Some(0)} :
          getBookingsByRoomId(p, user, roomId, date)
    \/ \E query \in ViewQueries : getAvailableRooms(p, query)

StepViews(p) ==
    \/ getAllRoomsBookings(p)
    \/ getAllRoomsRespond(p)
    \/ getAvailableRoomsRespond(p)
    \/ responseSent(p)

NextViews == BeginViews(1) \/ StepViews(1) \/ tick

SpecViews == InitViews /\ [][NextViews]_vars

(***************************************************************************)
(* Specification: three principals write to a store that holds a booking   *)
(* of Alice, a canceled booking and a booking made by a guest.             *)
(***************************************************************************)
GuardIntervals == {<<<<10, 0>>, <<11, 0>>>>, <<<<11, 0>>, <<12, 0>>>>}

\* createBooking bodies for room 2, one of them with end before start and
\* one with end equal to start
GuardCreateBodies ==
    {Body(Some(2), TitleAB, NullStr, NullStr, Some(0), Some(iv[1]), Some(iv[2]),
          None, None) :
        iv \in GuardIntervals \cup {<<<<10, 0>>, <<9, 0>>>>, <<<<10, 0>>, <<10, 0>>>>}}

\* updateBooking bodies: reschedules within the room, into room 2 and into
\* room 3 (which is no room), one with end before start, one with end equal to start, a
\* new title and comment alone,
\* and a title that is too short
GuardUpdateBodies ==
    {Body(None, TitleAB, NullStr, NullStr, Some(0), Some(<<11, 0>>), Some(<<12, 0>>),
          None, None),
     Body(Some(2), TitleAB, NullStr, NullStr, Some(0), Some(<<11, 0>>), Some(<<12, 0>>),
          None, None),
     Body(Some(3), TitleAB, NullStr, NullStr, Some(0), Some(<<9, 0>>), Some(<<10, 0>>),
          None, None),
     Body(None, TitleAB, NullStr, NullStr, Some(0), Some(<<10, 0>>), Some(<<9, 0>>),
          None, None),
     Body(None, TitleAB, NullStr, NullStr, Some(0), Some(<<10, 0>>), Some(<<10, 0>>),
          None, None),
     Body(None, TitleCD, NullStr, CommentK, None, None, None, None, None),
     Body(None, TitleShort, NullStr, NullStr, None, None, None, None, None)}

GuardModifiers == {Alice, Bob, Root}
GuardIds == {1, 3}
GuardQuery == Query(Some(0), Some(<<10, 0>>), Some(<<11, 0>>))

\* booking 1: room 1, 10:00-11:00, confirmed, of Alice; booking 2: room 2,
\* 10:00-11:00, canceled; booking 3: room 2, 11:00-12:00, confirmed, made by
\* a guest.  It is 10:00.
InitGuard ==
    /\ room = [i \in ExistingRooms |-> "active"]
    /\ booking =
         LET b == insertBooking(
                    insertBooking(
                      insertBooking(<<>>, 1, 1, TitleAB, CombineDateTime(0, <<10, 0>>),
                                    CombineDateTime(0, <<11, 0>>), NullStr, Alice.id),
                      2, 2, Trim(TitleCD), CombineDateTime(0, <<10, 0>>),
                      CombineDateTime(0, <<11, 0>>), CommentK, Bob.id),
                    3, 2, TitleAB, CombineDateTime(0, <<11, 0>>),
                    CombineDateTime(0, <<12, 0>>), NullStr, NULL)
         IN  [b EXCEPT ![2].status = "canceled"]
    /\ nextId = 4
    /\ activityLog = <<>>
    /\ cachedRoomsData = <<>>
    /\ cacheTimestamp = 0
    /\ now = CombineDateTime(0, <<10, 0>>)
    /\ req = [p \in Connections |-> Idle]

BeginGuard(p) ==
    \/ \E body \in GuardCreateBodies : createBooking(p, NoUser, body)
    \/ \E user \in GuardModifiers, id \in GuardIds, body \in GuardUpdateBodies :
          updateBooking(p, user, id, body)
    \/ \E user \in GuardModifiers, id \in GuardIds : deleteBooking(p, user, id)
    \/ getAllRooms(p, NoUser)

StepGuard(p) ==
    \/ StepWrite(p)
    \/ StepRooms(p)

NextGuard == BeginGuard(1) \/ StepGuard(1)

SpecGuard == InitGuard /\ [][NextGuard]_vars

(***************************************************************************)
(* Specification: writes and reads of a store that holds a canceled        *)
(* booking.                                                                *)
(***************************************************************************)
\* a reschedule into room 2 at 10:00-11:00, where the canceled booking lies
CanceledUpdateBodies ==
    {Body(Some(2), TitleAB, NullStr, NullStr, Some(0), Some(<<10, 0>>), Some(<<11, 0>>),
          None, None)}

BeginCanceled(p) ==
    \/ \E body \in GuardCreateBodies : createBooking(p, NoUser, body)
    \/ \E id \in {1, 2}, body \in CanceledUpdateBodies : updateBooking(p, Root, id, body)
    \/ getAllRooms(p, NoUser)
    \/ checkBookingConflict(p, NoUser, 2, GuardQuery)
    \/ getAvailableRooms(p, GuardQuery)

StepCanceled(p) ==
    \/ createCheck(p)
    \/ createInsert(p)
    \/ createFinish(p)
    \/ updateCheck(p)
    \/ updateWrite(p)
    \/ updateFinish(p)
    \/ StepRooms(p)
    \/ getAvailableRoomsRespond(p)
    \/ responseSent(p)

NextCanceled == BeginCanceled(1) \/ StepCanceled(1)

SpecCanceled == InitGuard /\ [][NextCanceled]_vars

(***************************************************************************)
(* Specification: bookings of several days are made in room 1 and the      *)
(* rooms are read on day 1.                                                *)
(***************************************************************************)
\* start_time / end_time pairs of the combined format: one from day 0 to day
\* 2, the others within day 1
DayIntervals ==
    {<<CombineDateTime(0, <<10, 0>>), CombineDateTime(2, <<10, 0>>)>>,
     <<CombineDateTime(1, <<9, 0>>), CombineDateTime(1, <<11, 0>>)>>,
     <<CombineDateTime(1, <<11, 0>>), CombineDateTime(1, <<13, 0>>)>>,
     <<CombineDateTime(1, <<13, 0>>), CombineDateTime(1, <<14, 0>>)>>}

DayCreateBodies ==
    {Body(Some(1), TitleAB, NullStr, NullStr, None, None, None, Some(iv[1]), Some(iv[2])) :
        iv \in DayIntervals}

\* the instants of day 1 at which the rooms are read
DayInstants == {CombineDateTime(1, <<10, 0>>), CombineDateTime(1, <<12, 0>>)}

InitDay ==
    /\ room = [i \in ExistingRooms |-> "active"]
    /\ booking = <<>>
    /\ nextId = 1
    /\ activityLog = <<>>
    /\ cachedRoomsData = <<>>
    /\ cacheTimestamp = 0
    /\ now = CombineDateTime(1, <<10, 0>>)
    /\ req = [p \in Connections |-> Idle]

\* time passes
tickDay ==
    /\ \E t \in DayInstants : t > now /\ now' = t
    /\ UNCHANGED <<room, booking, nextId, activityLog, cachedRoomsData,
                   cacheTimestamp, req>>

BeginDay(p) ==
    \/ \E body \in DayCreateBodies : createBooking(p, Alice, body)
    \/ \E user \in ViewUsers : getAllRooms(p, user)

StepDay(p) ==
    \/ createCheck(p)
    \/ createInsert(p)
    \/ createFinish(p)
    \/ StepRooms(p)
    \/ responseSent(p)

NextDay == BeginDay(1) \/ StepDay(1) \/ tickDay

SpecDay == InitDay /\ [][NextDay]_vars

(***************************************************************************)
(* Specification: a booking is made on one connection while the rooms are  *)
(* read on the other, and time passes.                                     *)
(***************************************************************************)
StaleCreateBodies ==
    {Body(Some(1), TitleAB, NullStr, NullStr, Some(0), Some(<<11, 0>>), Some(<<12, 0>>),
          None, None)}

\* 2 s and 46 s after 10:00:00
StaleInstants == {CombineDateTime(0, <<10, 0>>) + 2, CombineDateTime(0, <<10, 0>>) + 46}

tickStale ==
    /\ \E t \in StaleInstants : t > now /\ now' = t
    /\ UNCHANGED <<room, booking, nextId, activityLog, cachedRoomsData,
                   cacheTimestamp, req>>

InitStale ==
    /\ room = [i \in ExistingRooms |-> "active"]
    /\ booking = <<>>
    /\ nextId = 1
    /\ activityLog = <<>>
    /\ cachedRoomsData = <<>>
    /\ cacheTimestamp = 0
    /\ now = CombineDateTime(0, <<10, 0>>)
    /\ req = [p \in Connections |-> Idle]

BeginStale ==
    \/ getAllRooms(1, NoUser)
    \/ \E body \in StaleCreateBodies : createBooking(2, Alice, body)

StepStale ==
    \/ StepRooms(1)
    \/ createCheck(2)
    \/ createInsert(2)
    \/ createFinish(2)
    \/ \E p \in Connections : responseSent(p)

NextStale == BeginStale \/ StepStale \/ tickStale

SpecStale == InitStale /\ [][NextStale]_vars

(***************************************************************************)
(* Specification: the INSERT into activity_log may fail.                   *)
(***************************************************************************)
\* logActivity when pool.query rejects: the catch block logs to the console
\* and returns, no record is written
logActivityFails(log, userId, actionType, entityType, entityId) == log

\* a createBooking whose logActivity throws into the catch block of the
\* handler
createFinishThrows(p) ==
    /\ req[p].pc = "c_finish"
    /\ req' = [req EXCEPT ![p] = Respond(req[p], 500, "server_error")]
    /\ UNCHANGED <<room, booking, nextId, activityLog, cachedRoomsData,
                   cacheTimestamp, now>>

\* lines 370-386 with a failing activity-log insert
createFinishUnlogged(p) ==
    /\ req[p].pc = "c_finish"
    /\ activityLog' = logActivityFails(activityLog, req[p].user.id, "CREATE",
                                       "BOOKING", req[p].id)
    /\ invalidateRoomsCache
    /\ req' = [req EXCEPT ![p] = Respond(req[p], 201, "created")]
    /\ UNCHANGED <<room, booking, nextId, now>>

\* lines 646-665 and 680-693 with a failing activity-log insert
updateFinishUnlogged(p) ==
    /\ req[p].pc \in {"u_finish_reschedule", "u_finish_simple"}
    /\ activityLog' = logActivityFails(activityLog, req[p].user.id, "UPDATE",
                                       "BOOKING", req[p].id)
    /\ invalidateRoomsCache
    /\ req' = [req EXCEPT ![p] =
                 Respond(req[p], 200,
                         IF req[p].pc = "u_finish_reschedule" THEN "rescheduled"
                                                              ELSE "updated")]
    /\ UNCHANGED <<room, booking, nextId, now>>

\* lines 742-757 with a failing activity-log insert
deleteFinishUnlogged(p) ==
    /\ req[p].pc = "d_finish"
    /\ activityLog' = logActivityFails(activityLog, req[p].user.id, "DELETE",
                                       "BOOKING", req[p].id)
    /\ invalidateRoomsCache
    /\ req' = [req EXCEPT ![p] = Respond(req[p], 200, "deleted")]
    /\ UNCHANGED <<room, booking, nextId, now>>

AuditCreateBodies ==
    {Body(Some(1), TitleAB, NullStr, NullStr, Some(0), Some(iv[1]), Some(iv[2]),
          None, None) : iv \in GuardIntervals}

AuditUpdateBodies ==
    {Body(None, TitleAB, NullStr, NullStr, Some(0), Some(<<11, 0>>), Some(<<12, 0>>),
          None, None),
     Body(None, TitleCD, NullStr, CommentK, None, None, None, None, None)}

\* createBooking is given ids up to MaxBookings
BeginAudit(p) ==
    \/ /\ nextId <= MaxBookings
       /\ \E body \in AuditCreateBodies : createBooking(p, Alice, body)
    \/ \E id \in BookingIds, body \in AuditUpdateBodies : updateBooking(p, Alice, id, body)
    \/ \E id \in BookingIds : deleteBooking(p, Alice, id)
    \/ getAllRooms(p, NoUser)

StepAudit(p) ==
    \/ StepWrite(p)
    \/ StepRooms(p)
    \/ createFinishUnlogged(p)
    \/ updateFinishUnlogged(p)
    \/ deleteFinishUnlogged(p)

NextAudit == BeginAudit(1) \/ StepAudit(1)

SpecAudit == InitStale /\ [][NextAudit]_vars

(***************************************************************************)
(* Specification: the probe, the availability search and createBooking     *)
(* are asked about the same rooms and intervals; room 2 may be closed.      *)
(***************************************************************************)
AgreeCreateBodies ==
    {Body(Some(i), TitleAB, NullStr, NullStr, Some(0), Some(iv[1]), Some(iv[2]),
          None, None) : i \in ExistingRooms, iv \in WriteIntervals}

AgreeQueries == {Query(Some(0), Some(iv[1]), Some(iv[2])) : iv \in WriteIntervals}

BeginAgree(p) ==
    \/ \E body \in AgreeCreateBodies : createBooking(p, Alice, body)
    \/ \E user \in {NoUser, Alice}, roomId \in ExistingRooms, query \in AgreeQueries :
          checkBookingConflict(p, user, roomId, query)
    \/ \E query \in AgreeQueries : getAvailableRooms(p, query)

StepAgree(p) ==
    \/ createCheck(p)
    \/ createInsert(p)
    \/ createFinish(p)
    \/ getAvailableRoomsRespond(p)
    \/ responseSent(p)

NextAgree == BeginAgree(1) \/ StepAgree(1)

SpecAgree == InitOverlap /\ [][NextAgree]_vars

(***************************************************************************)
(* Properties.                                                             *)
(***************************************************************************)
\* the overlap of two half-open intervals, as the specification defines it
overlaps(aStart, aEnd, bStart, bEnd) == aStart < bEnd /\ aEnd > bStart

\* the confirmed bookings of a room, other than `self`, whose interval
\* overlaps [start, end)
Colliding(room_id, start, end, self) ==
    {i \in DOMAIN booking \ {self} :
        /\ booking[i].room_id = room_id
        /\ booking[i].status = "confirmed"
        /\ overlaps(start, end, booking[i].start_time, booking[i].end_time)}

Answered(r, code) == r.pc = "done" /\ r.status = code

\* the request has written its row: the INSERT or the full UPDATE is done
Committed(r) ==
    \/ r.op = "create" /\ (r.pc = "c_finish" \/ Answered(r, 201))
    \/ r.op = "update" /\ (r.pc = "u_finish_reschedule"
                              \/ (Answered(r, 200) /\ r.message = "rescheduled"))

At(h, m) == CombineDateTime(0, <<h, m>>)

\* C1: with requests served one at a time, no room ever holds two distinct
\* confirmed bookings b1, b2 with b1.start < b2.end and b1.end > b2.start.
C1_NoOverlap ==
    \A b1 \in DOMAIN booking, b2 \in DOMAIN booking :
        (/\ b1 # b2
         /\ booking[b1].room_id = booking[b2].room_id
         /\ booking[b1].status = "confirmed"
         /\ booking[b2].status = "confirmed")
        => ~(/\ booking[b1].start_time < booking[b2].end_time
             /\ booking[b1].end_time > booking[b2].start_time)

\* two bookings share a room after a create, a reschedule and a rejected
\* overlapping reschedule
C1_Witness ==
    /\ \E b1 \in DOMAIN booking, b2 \in DOMAIN booking :
          /\ b1 # b2
          /\ booking[b1].room_id = booking[b2].room_id
          /\ booking[b1].end_time = booking[b2].start_time
    /\ Records(activityLog, "UPDATE") > 0
    /\ req[1].op = "update" /\ Answered(req[1], 409)

\* C2: of two createBooking requests for the same room with overlapping
\* intervals that are in flight together, at most one persists its booking:
\* their two rows are never both in the store.
C2_ConcurrentCreates ==
    \A p \in Connections, q \in Connections :
        (/\ p # q
         /\ req[p].op = "create" /\ Committed(req[p])
         /\ req[q].op = "create" /\ Committed(req[q])
         /\ req[p].targetRoomId = req[q].targetRoomId
         /\ overlaps(req[p].start, req[p].end, req[q].start, req[q].end))
        => ~(req[p].id \in DOMAIN booking /\ req[q].id \in DOMAIN booking)

\* C3: a reschedule and a concurrent create or reschedule of another booking
\* that target the same room with overlapping intervals never both commit.
C3_ConcurrentReschedule ==
    \A p \in Connections, q \in Connections :
        (/\ p # q
         /\ req[p].op = "update" /\ Committed(req[p])
         /\ Committed(req[q])
         /\ req[p].id # req[q].id
         /\ req[p].targetRoomId = req[q].targetRoomId
         /\ overlaps(req[p].start, req[p].end, req[q].start, req[q].end))
        => ~(/\ req[p].id \in DOMAIN booking
             /\ req[q].id \in DOMAIN booking
             /\ booking[req[p].id].room_id = booking[req[q].id].room_id
             /\ overlaps(booking[req[p].id].start_time, booking[req[p].id].end_time,
                         booking[req[q].id].start_time, booking[req[q].id].end_time))

\* C4 (as the code has it): a createBooking for room R whose interval overlaps
\* a confirmed booking of R answers 409 with the title, start and end of one
\* of the confirmed bookings of R it overlaps, and inserts nothing; one that
\* overlaps none of them, a back-to-back interval included, inserts exactly
\* one confirmed booking with the requested room and interval.
C4_CreateConflict ==
    /\ [](\A p \in Connections :
            LET r == req[p]
                others == Colliding(r.targetRoomId, r.start, r.end, r.id)
            IN  r.op = "create" =>
                  /\ Answered(r, 409) =>
                        /\ r.id = 0
                        /\ IsSome(r.conflict)
                        /\ \E i \in others : Val(r.conflict) = conflictPayload(booking[i])
                  /\ r.pc = "c_insert" => others = {}
                  /\ (r.pc = "c_finish" \/ Answered(r, 201)) =>
                        /\ others = {}
                        /\ r.id \in DOMAIN booking
                        /\ booking[r.id].room_id = r.targetRoomId
                        /\ booking[r.id].start_time = r.start
                        /\ booking[r.id].end_time = r.end
                        /\ booking[r.id].status = "confirmed"
                  /\ ~Answered(r, 500))
    /\ [][\A p \in Connections :
            /\ (req[p].pc = "c_check" /\ req'[p].pc = "done") => booking' = booking
            /\ (req[p].pc = "c_insert" /\ req'[p].pc = "c_finish") =>
                  /\ req'[p].id \notin DOMAIN booking
                  /\ DOMAIN booking' = DOMAIN booking \cup {req'[p].id}
                  /\ \A i \in DOMAIN booking : booking'[i] = booking[i]]_vars

\* a create is answered 409 after a back-to-back create has been stored
C4_Witness ==
    /\ req[1].op = "create" /\ Answered(req[1], 409)
    /\ \E i \in DOMAIN booking, j \in DOMAIN booking :
          /\ i >= 3
          /\ booking[i].room_id = booking[j].room_id
          /\ booking[i].end_time = booking[j].start_time

\* C4 as stated: the 409 of a create carries the title, start and end of
\* every confirmed booking A of the room that the interval overlaps.
C4_ConflictCarriesEveryOverlapped ==
    \A p \in Connections :
        LET r == req[p]
        IN  (r.op = "create" /\ Answered(r, 409)) =>
              \A A \in Colliding(r.targetRoomId, r.start, r.end, r.id) :
                  r.conflict = Some(conflictPayload(booking[A]))

\* the stored interval [bStart, bEnd) collides with the requested
\* [aStart, aEnd) in each of the four conflict queries / in none of them
OneBooking(bStart, bEnd) == insertBooking(<<>>, 1, 1, TitleAB, bStart, bEnd, NullStr, NULL)

InEveryQuery(aStart, aEnd, bStart, bEnd) ==
    /\ createConflictRows(OneBooking(bStart, bEnd), 1, aStart, aEnd) = {1}
    /\ updateConflictRows(OneBooking(bStart, bEnd), 1, 2, aStart, aEnd) = {1}
    /\ probeConflictRows(OneBooking(bStart, bEnd), 1, aStart, aEnd) = {1}
    /\ occupiedRoomIds(OneBooking(bStart, bEnd), aStart, aEnd) = {1}

InNoQuery(aStart, aEnd, bStart, bEnd) ==
    /\ createConflictRows(OneBooking(bStart, bEnd), 1, aStart, aEnd) = {}
    /\ updateConflictRows(OneBooking(bStart, bEnd), 1, 2, aStart, aEnd) = {}
    /\ probeConflictRows(OneBooking(bStart, bEnd), 1, aStart, aEnd) = {}
    /\ occupiedRoomIds(OneBooking(bStart, bEnd), aStart, aEnd) = {}

ClockIntervals ==
    {<<CombineDateTime(0, iv[1]), CombineDateTime(0, iv[2])>> : iv \in ProbeIntervals}

\* the four queries on every pair of clock intervals, and on the four
\* examples of the specification
QueriesFollowPredicate ==
    /\ \A a \in ClockIntervals, b \in ClockIntervals :
          /\ IF overlaps(a[1], a[2], b[1], b[2])
             THEN InEveryQuery(a[1], a[2], b[1], b[2])
             ELSE InNoQuery(a[1], a[2], b[1], b[2])
          /\ InEveryQuery(a[1], a[2], b[1], b[2]) <=> InEveryQuery(b[1], b[2], a[1], a[2])
    /\ InNoQuery(At(11, 0), At(12, 0), At(10, 0), At(11, 0))
    /\ InEveryQuery(At(10, 59), At(12, 0), At(10, 0), At(11, 0))
    /\ InEveryQuery(At(9, 0), At(10, 1), At(10, 0), At(11, 0))
    /\ InEveryQuery(At(10, 0), At(11, 0), At(10, 0), At(11, 0))

\* C5: each of the four conflict queries (create, reschedule, conflict probe,
\* available rooms) finds a stored confirmed interval [bStart, bEnd) colliding
\* with the requested [aStart, aEnd) exactly when aStart < bEnd and
\* aEnd > bStart; the test is symmetric in the two intervals, false for
\* 10:00-11:00 against 11:00-12:00 and true for 10:00-11:00 against
\* 10:59-12:00, 09:00-10:01 and 10:00-11:00; and every answer of the four
\* handlers is the one this test gives on the stored bookings.
C5_OverlapPredicate ==
    /\ QueriesFollowPredicate
    /\ \A p \in Connections :
          LET r == req[p]
          IN  /\ (r.op = "create" /\ r.pc = "c_insert") =>
                    Colliding(r.targetRoomId, r.start, r.end, 0) = {}
              /\ (r.op = "create" /\ Answered(r, 409)) =>
                    Colliding(r.targetRoomId, r.start, r.end, 0) # {}
              /\ (r.op = "update" /\ r.pc = "u_write") =>
                    Colliding(r.targetRoomId, r.start, r.end, r.id) = {}
              /\ (r.op = "update" /\ Answered(r, 409)) =>
                    Colliding(r.targetRoomId, r.start, r.end, r.id) # {}
              /\ (r.op = "probe" /\ Answered(r, 200)) =>
                    /\ IsSome(r.data) <=> Colliding(r.targetRoomId, r.start, r.end, 0) # {}
                    /\ IsSome(r.data) =>
                          Val(r.data).id \in Colliding(r.targetRoomId, r.start, r.end, 0)
              /\ (r.op = "available" /\ Answered(r, 200)) =>
                    \A i \in DOMAIN room :
                        i \in Val(r.data) <=>
                            /\ Colliding(i, r.start, r.end, 0) = {}
                            /\ normalizeRoomStatus(room[i]) = "active"

\* the probe of 09:00-10:01 in room 1 reports the booking from 10:00 to 11:00
C5_Witness ==
    /\ req[1].op = "probe" /\ Answered(req[1], 200)
    /\ req[1].start = At(9, 0) /\ req[1].end = At(10, 1)
    /\ IsSome(req[1].data)
    /\ Val(req[1].data).start_time = At(10, 0)
    /\ Val(req[1].data).end_time = At(11, 0)

\* C6: a reschedule of booking A never answers 409 on account of A itself:
\* it is rejected exactly when another confirmed booking of the target room
\* overlaps the new interval, the 409 names such a booking, and a reschedule
\* of A to its own room and interval goes through when no other overlaps it.
C6_SelfExclusion ==
    \A p \in Connections :
        LET r == req[p]
            others == Colliding(r.targetRoomId, r.start, r.end, r.id)
        IN  r.op = "update" =>
              /\ Answered(r, 409) =>
                    /\ IsSome(r.conflict)
                    /\ \E i \in others : Val(r.conflict) = conflictPayload(booking[i])
              /\ r.pc = "u_write" => others = {}
              /\ Committed(r) => others = {}

\* booking A has been rescheduled to the room and interval it already had
C6_Witness ==
    /\ req[1].op = "update" /\ Answered(req[1], 200)
    /\ req[1].message = "rescheduled"
    /\ req[1].row[1].room_id = req[1].targetRoomId
    /\ req[1].row[1].start_time = req[1].start
    /\ req[1].row[1].end_time = req[1].end
    /\ Cardinality(DOMAIN booking) = 2

RoomMissing(room_id) == room_id \notin DOMAIN room

RoomClosed(room_id) ==
    room_id \in DOMAIN room /\ room[room_id] \in {"maintenance", "inactive"}

\* the request has got as far as its conflict SELECT
ReachedConflictCheck(r) ==
    \/ r.pc \in {"c_check", "c_insert", "c_finish", "u_check", "u_write",
                 "u_finish_reschedule"}
    \/ r.pc = "done" /\ r.op \in {"create", "update"}
                     /\ (r.status \in {201, 409} \/ r.message = "rescheduled")

\* C7: a create or a reschedule gets to its conflict check only when its
\* target room exists and is neither in maintenance nor inactive, and no
\* booking is ever written into a room that is missing or closed.
C7_RoomGateOnEveryWrite ==
    /\ \A p \in Connections :
          ReachedConflictCheck(req[p]) =>
              ~RoomMissing(req[p].targetRoomId) /\ ~RoomClosed(req[p].targetRoomId)
    /\ \A i \in DOMAIN booking : ~RoomClosed(booking[i].room_id)

\* a reschedule has moved a booking into a room in maintenance or inactive
C7_Witness ==
    /\ req[1].op = "update" /\ Answered(req[1], 200)
    /\ req[1].message = "rescheduled"
    /\ RoomClosed(booking[req[1].id].room_id)

\* C8: a createBooking with a valid body whose target room is missing answers
\* 404, and one whose room is in maintenance or inactive answers the 400 of
\* the room gate; neither ever gets to the overlap query or answers 409,
\* whether or not the interval overlaps a confirmed booking of that room.
C8_GateBeforeOverlap ==
    \A p \in Connections :
        LET r == req[p]
        IN  (r.op = "create" /\ createValidation(r.user, r.body) = "ok") =>
              /\ RoomMissing(Val(r.body.room_id)) =>
                    Answered(r, 404) /\ r.message = "room_not_found" /\ r.conflict = None
              /\ RoomClosed(Val(r.body.room_id)) =>
                    Answered(r, 400) /\ r.message = "room_unavailable" /\ r.conflict = None

\* the room gate has answered a create whose interval overlaps a confirmed
\* booking of the closed room
C8_Witness ==
    /\ req[1].op = "create" /\ Answered(req[1], 400)
    /\ req[1].message = "room_unavailable"
    /\ Colliding(Val(req[1].body.room_id), Val(TimeStrings(req[1].body)).start,
                 Val(TimeStrings(req[1].body)).end, 0) # {}

\* the body names a start, an end or a room, but not both a start and an end
PartialTimeChange(body) ==
    LET hasStart == IsSome(body.start_time) \/ IsSome(body.startTime)
        hasEnd   == IsSome(body.end_time) \/ IsSome(body.endTime)
    IN  /\ hasStart \/ hasEnd \/ IsSome(body.room_id)
        /\ ~(hasStart /\ hasEnd)

\* C9: an updateBooking whose body supplies only a start, only an end, or a
\* room_id without both is rejected: it never gets to an UPDATE statement.
C9_PartialTimeChangeRejected ==
    \A p \in Connections :
        LET r == req[p]
        IN  (r.op = "update" /\ PartialTimeChange(r.body)) =>
              r.pc = "done" /\ r.status \in {400, 401, 403, 404}

\* an update that supplied only part of the reschedule fields has answered
\* 200 and changed the title
C9_Witness ==
    /\ req[1].op = "update" /\ PartialTimeChange(req[1].body)
    /\ Answered(req[1], 200)
    /\ booking[req[1].id].title # req[1].row[1].title

DeleteRecords(id) ==
    Cardinality({k \in DOMAIN activityLog :
                    /\ activityLog[k].action_type = "DELETE"
                    /\ activityLog[k].entity_id = id})

\* C10: a deleteBooking of an id that has no booking answers 404 at once and
\* changes no booking, no activity-log record and nothing of the rooms cache;
\* so an id has at most one DELETE record, and exactly one once its booking
\* has been deleted, however often the delete is repeated.
C10_DeleteAbsent ==
    /\ [][\A p \in Connections :
            (/\ req[p].pc = "idle"
             /\ req'[p].op = "delete"
             /\ req'[p].user # NoUser
             /\ req'[p].id \notin DOMAIN booking)
            => /\ Answered(req'[p], 404)
               /\ req'[p].message = "booking_not_found"
               /\ UNCHANGED <<booking, activityLog, cachedRoomsData, cacheTimestamp>>]_vars
    /\ [](\A id \in BookingIds :
            /\ DeleteRecords(id) <= 1
            /\ (/\ id < nextId
                /\ id \notin DOMAIN booking
                /\ \A p \in Connections : ~(req[p].id = id /\ req[p].pc = "d_finish"))
               => DeleteRecords(id) = 1)

\* the second delete of an id has answered 404 and left a filled cache alone
C10_Witness ==
    /\ req[1].op = "delete" /\ Answered(req[1], 404)
    /\ DeleteRecords(req[1].id) = 1
    /\ cachedRoomsData # <<>>

\* C11: getAvailableRooms answers with exactly the rooms whose stored status
\* is active and that have no confirmed booking overlapping the requested
\* interval: a room in maintenance or inactive is never among them, nor is a
\* room with an overlapping confirmed booking.
C11_AvailabilityComplement ==
    \A p \in Connections :
        LET r == req[p]
        IN  (r.op = "available" /\ Answered(r, 200)) =>
              /\ IsSome(r.data)
              /\ Val(r.data) = {i \in DOMAIN room :
                                  /\ room[i] = "active"
                                  /\ Colliding(i, r.start, r.end, 0) = {}}

\* 09:00-10:00 is asked for: room 1 is free and returned, room 2 is closed,
\* has no booking in the interval and is not returned
C11_Witness ==
    /\ req[1].op = "available" /\ Answered(req[1], 200)
    /\ req[1].start = At(9, 0) /\ req[1].end = At(10, 0)
    /\ RoomClosed(2) /\ Colliding(2, req[1].start, req[1].end, 0) = {}
    /\ Val(req[1].data) = {1}

\* the bookings a getAllRooms response shows: those of allBookingsToday,
\* currentBooking and nextBooking of every room
ShownBookings(data) ==
    UNION {{data[i].allBookingsToday[k] : k \in DOMAIN data[i].allBookingsToday}
           \cup {data[i].currentBooking[k] : k \in DOMAIN data[i].currentBooking}
           \cup {data[i].nextBooking[k] : k \in DOMAIN data[i].nextBooking}
           : i \in DOMAIN data}

\* the bookings of any answer that carries bookings
BookingsOf(r) ==
    IF ~Answered(r, 200) \/ ~IsSome(r.data) THEN {}
    ELSE CASE r.op = "rooms"        -> ShownBookings(Val(r.data))
           [] r.op = "roomBookings" -> {Val(r.data)[k] : k \in DOMAIN Val(r.data)}
           [] r.op = "probe"        -> {Val(r.data)}
           [] OTHER                 -> {}

Redacted(b) == b.title = Belegt /\ b.comment = NullStr

Stored(b) ==
    /\ b.id \in DOMAIN booking
    /\ b.title = booking[b.id].title
    /\ b.comment = booking[b.id].comment

\* C12: a getAllRooms, getBookingsByRoomId or checkBookingConflict response
\* to a request without a valid identity carries 'Belegt' as every booking
\* title and null as every comment, also when the rooms cache was last filled
\* by an authenticated request.
C12_GuestRedaction ==
    \A p \in Connections :
        req[p].user = NoUser => \A b \in BookingsOf(req[p]) : Redacted(b)

\* a guest is answered from the cache and is shown a booking
C12_Witness ==
    /\ req[1].op = "rooms" /\ req[1].user = NoUser
    /\ Answered(req[1], 200) /\ req[1].message = "cache_hit"
    /\ BookingsOf(req[1]) # {}

\* C13: whatever the order of guest and authenticated getAllRooms requests,
\* an authenticated request receives the stored titles and comments of the
\* bookings; a guest that refreshed the cache earlier does not put the
\* placeholder into a later authenticated response.
C13_AuthorizedViewUnweakened ==
    \A p \in Connections :
        (req[p].op = "rooms" /\ req[p].user # NoUser) =>
            \A b \in BookingsOf(req[p]) : Stored(b)

\* an authenticated request is answered from the cache and is shown a booking
C13_Witness ==
    /\ req[1].op = "rooms" /\ req[1].user = Alice
    /\ Answered(req[1], 200) /\ req[1].message = "cache_hit"
    /\ BookingsOf(req[1]) # {}

OutsideBusinessHours(t) == hourOf(t) < 8 \/ hourOf(t) >= 20

\* C14: a getAllRooms response produced while the local hour is outside
\* [8, 20) shows night_rest for every room, and one produced inside [8, 20)
\* shows the stored (normalized) status of every room; responses served from
\* the cache across 08:00 and 20:00 included.
C14_BusinessHoursOverride ==
    \A p \in Connections :
        LET r == req[p]
        IN  (r.op = "rooms" /\ Answered(r, 200)) =>
              \A i \in DOMAIN Val(r.data) :
                  Val(r.data)[i].status =
                      IF OutsideBusinessHours(r.at) THEN "night_rest"
                      ELSE normalizeRoomStatus(room[i])

\* a view computed before 20:00 is served from the cache at or after 20:00
C14_Witness ==
    /\ req[1].op = "rooms" /\ Answered(req[1], 200)
    /\ req[1].message = "cache_hit"
    /\ hourOf(cacheTimestamp \div 1000) = 19 /\ hourOf(req[1].at) = 20

Canceled(i) == i \in DOMAIN booking /\ booking[i].status = "canceled"

\* the confirmed bookings of a room that touch the day of `t`
ConfirmedOfDay(room_id, t) ==
    {i \in DOMAIN booking :
        /\ booking[i].room_id = room_id
        /\ booking[i].status = "confirmed"
        /\ dateOf(booking[i].start_time) = dateOf(t)
           \/ dateOf(booking[i].end_time) = dateOf(t)}

\* C15: a canceled booking is never the conflict of createBooking,
\* updateBooking or checkBookingConflict, never makes a room unavailable in
\* getAvailableRooms, and is never currentBooking, nextBooking, a member of
\* allBookingsToday or counted in the totals of getAllRooms.
C15_CanceledInert ==
    \A p \in Connections :
        LET r == req[p]
            self == IF r.op = "update" THEN r.id ELSE 0
            colliding == Colliding(r.targetRoomId, r.start, r.end, self)
        IN  /\ (r.op \in {"create", "update"} /\ Answered(r, 409)) =>
                  \E i \in colliding :
                      /\ Val(r.conflict).title = booking[i].title
                      /\ Val(r.conflict).start_time = booking[i].start_time
                      /\ Val(r.conflict).end_time = booking[i].end_time
            /\ (r.op = "probe" /\ Answered(r, 200)) =>
                  IF colliding = {} THEN r.message = "free"
                  ELSE r.message = "conflict" /\ Val(r.data).id \in colliding
            /\ (r.op = "available" /\ Answered(r, 200)) =>
                  \A i \in DOMAIN room :
                      (room[i] = "active" /\ Colliding(i, r.start, r.end, 0) = {})
                          => i \in Val(r.data)
            /\ (r.op = "rooms" /\ Answered(r, 200)) =>
                  /\ \A b \in ShownBookings(Val(r.data)) : ~Canceled(b.id)
                  /\ \A i \in DOMAIN Val(r.data) :
                        Val(r.data)[i].totalBookingsToday =
                            Cardinality(ConfirmedOfDay(i, r.at))

\* room 2 is booked for 10:00-11:00 while the canceled booking 2 lies in
\* room 2 at 10:00-11:00
C15_Witness ==
    /\ req[1].op = "create" /\ Answered(req[1], 201)
    /\ req[1].targetRoomId = 2
    /\ Canceled(2) /\ booking[2].room_id = 2
    /\ overlaps(req[1].start, req[1].end, booking[2].start_time, booking[2].end_time)

\* the start_time of the earliest of a nonempty set of bookings
EarliestStart(ids) ==
    CHOOSE t \in {booking[i].start_time : i \in ids} :
        \A i \in ids : t <= booking[i].start_time

\* C16: when the interval of a create, a reschedule or a conflict probe
\* overlaps several confirmed bookings of the room, the booking the response
\* reports is the one with the earliest start_time.
C16_EarliestConflictReported ==
    \A p \in Connections :
        LET r == req[p]
            self == IF r.op = "update" THEN r.id ELSE 0
            colliding == Colliding(r.targetRoomId, r.start, r.end, self)
        IN  /\ (r.op \in {"create", "update"} /\ Answered(r, 409)) =>
                  Val(r.conflict).start_time = EarliestStart(colliding)
            /\ (r.op = "probe" /\ Answered(r, 200) /\ r.message = "conflict") =>
                  Val(r.data).start_time = EarliestStart(colliding)

\* a create is answered 409 while its interval overlaps two bookings
C16_Witness ==
    /\ req[1].op = "create" /\ Answered(req[1], 409)
    /\ Cardinality(Colliding(req[1].targetRoomId, req[1].start, req[1].end, 0)) >= 2

\* the principal of request r is neither an admin nor the creator of the
\* stored booking r.id
Unauthorized(r) ==
    /\ r.op \in {"update", "delete"}
    /\ r.user # NoUser
    /\ r.id \in DOMAIN booking
    /\ r.user.role # "admin"
    /\ booking[r.id].created_by # r.user.id

\* C17: an updateBooking or deleteBooking of a principal who is neither the
\* booking's creator nor an admin is answered 403 (its title and comment
\* being valid, which updateBooking checks first) and leaves the bookings,
\* the activity log and the cache as they are; a booking with created_by null
\* is changed or deleted by requests of an admin only.
C17_ForbiddenMutatesNothing ==
    /\ [][\A p \in Connections :
            (req[p].pc = "idle" /\ Unauthorized(req'[p])) =>
                /\ UNCHANGED <<booking, activityLog, cachedRoomsData, cacheTimestamp>>
                /\ req'[p].pc = "done"
                /\ \/ req'[p].status = 403
                   \/ /\ req'[p].op = "update" /\ req'[p].status = 400
                      /\ req'[p].message \in {"title", "comment"}]_vars
    /\ [][\A i \in DOMAIN booking :
            (/\ booking[i].created_by = NULL
             /\ i \notin DOMAIN booking' \/ booking'[i] # booking[i]) =>
                \E p \in Connections :
                    /\ req[p].op \in {"update", "delete"}
                    /\ req[p].id = i
                    /\ req[p].user.role = "admin"]_vars

\* Alice's delete of the booking a guest made is answered 403 while the cache
\* is filled
C17_Witness ==
    /\ req[1].op = "delete" /\ Answered(req[1], 403) /\ req[1].user = Alice
    /\ req[1].id \in DOMAIN booking /\ booking[req[1].id].created_by = NULL
    /\ cachedRoomsData # <<>>

\* the body names an interval whose end is equal to or earlier than its start
EndNotAfterStart(body) ==
    /\ IsSome(TimeStrings(body))
    /\ Val(TimeStrings(body)).end <= Val(TimeStrings(body)).start

\* C18: a createBooking or a reschedule whose end is equal to or earlier than
\* its start is rejected before the conflict query and nothing is inserted or
\* modified: a createBooking always with 400, an updateBooking with 400
\* unless it has been refused already with 401, 404 or 403; every stored
\* confirmed booking has end_time strictly after start_time.
C18_IntervalValidation ==
    /\ [](\A i \in DOMAIN booking :
            booking[i].status = "confirmed" =>
                booking[i].end_time > booking[i].start_time)
    /\ [][\A p \in Connections :
            (/\ req[p].pc = "idle"
             /\ req'[p].op \in {"create", "update"}
             /\ EndNotAfterStart(req'[p].body)) =>
                /\ UNCHANGED booking
                /\ req'[p].pc = "done"
                /\ \/ req'[p].status = 400
                   \/ req'[p].op = "update" /\ req'[p].status \in {401, 403, 404}
                /\ (req'[p].op = "update" /\ req'[p].user = Root
                      /\ req'[p].id \in DOMAIN booking) =>
                        req'[p].status = 400]_vars

\* a reschedule of a stored booking to 10:00-10:00 is answered 400
C18_Witness ==
    /\ req[1].op = "update" /\ Answered(req[1], 400)
    /\ req[1].message = "end_not_after_start"
    /\ req[1].id \in DOMAIN booking
    /\ Val(TimeStrings(req[1].body)).end = Val(TimeStrings(req[1].body)).start

\* the step sends the response of a createBooking, updateBooking or
\* deleteBooking on connection p
WriteResponds(p) ==
    /\ req[p].pc # "done" /\ req'[p].pc = "done"
    /\ req'[p].op \in {"create", "update", "delete"}

\* C19: when the success response of a createBooking, an updateBooking
\* (reschedule or title/comment only) or a deleteBooking is sent, the rooms
\* cache has been cleared (cachedRoomsData null, cacheTimestamp 0); a request
\* that fails with 400, 401, 403, 404, 409 or 500 leaves the cache as it was.
C19_CacheInvalidationOnWrite ==
    [][\A p \in Connections :
         WriteResponds(p) =>
            IF req'[p].status \in {200, 201}
            THEN cachedRoomsData' = <<>> /\ cacheTimestamp' = 0
            ELSE /\ req'[p].status \in {400, 401, 403, 404, 409, 500}
                 /\ UNCHANGED <<cachedRoomsData, cacheTimestamp>>]_vars

\* a booking has been updated by title and comment alone and the cache is
\* empty
C19_Witness ==
    /\ req[1].op = "update" /\ Answered(req[1], 200) /\ req[1].message = "updated"
    /\ cachedRoomsData = <<>> /\ cacheTimestamp = 0

\* the room a reschedule asks for: room_id of the body, or else the room of
\* the row the handler read
RequestedRoom(r) ==
    IF IsSome(r.body.room_id) THEN Val(r.body.room_id) ELSE r.row[1].room_id

\* C20: a reschedule that supplies room_id is conflict-checked against the
\* confirmed bookings of that room, one that omits it against those of the
\* booking's current room; after a successful reschedule the stored room_id
\* is the target room.
C20_RescheduleChecksTargetRoom ==
    \A p \in Connections :
        LET r == req[p]
            others == Colliding(RequestedRoom(r), r.start, r.end, r.id)
        IN  (r.op = "update" /\ r.row # <<>> /\ isReschedule(r.body)) =>
              /\ Answered(r, 409) =>
                    \E i \in others :
                        /\ Val(r.conflict).title = booking[i].title
                        /\ Val(r.conflict).start_time = booking[i].start_time
                        /\ Val(r.conflict).end_time = booking[i].end_time
              /\ r.pc = "u_write" => others = {}
              /\ (Answered(r, 200) \/ r.pc = "u_finish_reschedule") =>
                    /\ others = {}
                    /\ booking[r.id].room_id = RequestedRoom(r)

\* booking 1 of room 1 is refused room 2 at 11:00-12:00, where booking 3
\* lies, while room 1 has no other booking at that time
C20_Witness ==
    /\ req[1].op = "update" /\ Answered(req[1], 409) /\ req[1].id = 1
    /\ req[1].row[1].room_id = 1 /\ req[1].body.room_id = Some(2)
    /\ Colliding(1, req[1].start, req[1].end, 1) = {}

\* the body supplies a title and a comment and nothing else
MetadataOnly(body) ==
    /\ body.room_id = None
    /\ body.date = None /\ body.startTime = None /\ body.endTime = None
    /\ body.start_time = None /\ body.end_time = None

Ongoing(room_id, t) ==
    {j \in DOMAIN booking :
        /\ booking[j].room_id = room_id
        /\ booking[j].status = "confirmed"
        /\ booking[j].start_time <= t /\ t < booking[j].end_time}

\* C22: an uncached getAllRooms reports as currentBooking of every room a
\* confirmed booking of the room with start <= asOf < end whenever there is
\* one, a booking that started before today and ends after today included,
\* and null only when there is none.
C22_CurrentBooking ==
    \A p \in Connections :
        LET r == req[p]
        IN  (r.op = "rooms" /\ Answered(r, 200) /\ r.message = "cache_miss") =>
              \A i \in DOMAIN Val(r.data) :
                  LET cur == Val(r.data)[i].currentBooking
                  IN  IF Ongoing(i, r.at) = {} THEN cur = None
                      ELSE IsSome(cur) /\ Val(cur).id \in Ongoing(i, r.at)

\* the rooms are read from the database while a booking that began on an
\* earlier day and ends on a later day is under way in room 1
C22_Witness ==
    /\ req[1].op = "rooms" /\ Answered(req[1], 200) /\ req[1].message = "cache_miss"
    /\ \E j \in Ongoing(1, req[1].at) :
          /\ dateOf(booking[j].start_time) < dateOf(req[1].at)
          /\ dateOf(booking[j].end_time) > dateOf(req[1].at)

\* the loaded bookings of a room that start after t
Upcoming(room_id, t) ==
    {j \in ConfirmedOfDay(room_id, t) : booking[j].start_time > t}

\* C23: an uncached getAllRooms reports as nextBooking of every room the
\* booking with the smallest start_time among the loaded confirmed bookings
\* of the room with start > asOf, and null when there is none; nextBooking is
\* never the currentBooking.
C23_NextBooking ==
    \A p \in Connections :
        LET r == req[p]
        IN  (r.op = "rooms" /\ Answered(r, 200) /\ r.message = "cache_miss") =>
              \A i \in DOMAIN Val(r.data) :
                  LET next == Val(r.data)[i].nextBooking
                      cur == Val(r.data)[i].currentBooking
                      upcoming == Upcoming(i, r.at)
                  IN  /\ IF upcoming = {} THEN next = None
                         ELSE /\ IsSome(next)
                              /\ Val(next).id \in upcoming
                              /\ Val(next).start_time = booking[Val(next).id].start_time
                              /\ \A j \in upcoming :
                                    Val(next).start_time <= booking[j].start_time
                      /\ (IsSome(next) /\ IsSome(cur)) => Val(next).id # Val(cur).id

\* room 1 has two bookings ahead, the later one made first, and one under way
C23_Witness ==
    /\ req[1].op = "rooms" /\ Answered(req[1], 200) /\ req[1].message = "cache_miss"
    /\ \E j, k \in Upcoming(1, req[1].at) :
          j < k /\ booking[j].start_time > booking[k].start_time

\* the view shows booking j among the bookings of its room
ShowsBooking(data, j) ==
    /\ booking[j].room_id \in DOMAIN data
    /\ \E k \in DOMAIN data[booking[j].room_id].allBookingsToday :
          data[booking[j].room_id].allBookingsToday[k].id = j

\* the bookings of today whose createBooking had logged and invalidated the
\* cache by the instant t (in milliseconds)
CreatedBy(t) ==
    {activityLog[k].entity_id : k \in
        {n \in DOMAIN activityLog :
            /\ activityLog[n].action_type = "CREATE"
            /\ activityLog[n].entity_id \in DOMAIN booking
            /\ activityLog[n].timestamp * 1000 <= t}}

\* C24: a getAllRooms response shows every booking whose write invalidated
\* the cache more than CACHE_TTL_MS before the response; a getAllRooms that
\* read the database before a write and calls updateRoomsCache after the
\* write's invalidateRoomsCache leaves no pre-write data in the cache under a
\* fresh timestamp.
C24_StalenessBound ==
    /\ \A p \in Connections :
          LET r == req[p]
          IN  (r.op = "rooms" /\ Answered(r, 200)) =>
                \A j \in CreatedBy(r.at * 1000 - CACHE_TTL_MS - 1) :
                    ShowsBooking(Val(r.data), j)
    /\ cachedRoomsData # <<>> =>
          \A j \in CreatedBy(cacheTimestamp - 1) : ShowsBooking(Val(cachedRoomsData), j)

\* the cache is filled later than the booking was logged
C24_Witness ==
    /\ cachedRoomsData # <<>>
    /\ CreatedBy(cacheTimestamp - 1) # {}

\* connection p is past its write and at the activity-log insert
AtAudit(p) ==
    req[p].pc \in {"c_finish", "u_finish_reschedule", "u_finish_simple", "d_finish"}

\* C25: when the activity-log insert of a createBooking, updateBooking or
\* deleteBooking fails, the booking change already written stays, the cache
\* is invalidated and the request is answered 201 / 200, never 500.
C25_AuditBestEffort ==
    [][\A p \in Connections :
         (AtAudit(p) /\ req'[p] # req[p] /\ activityLog' = activityLog) =>
            /\ UNCHANGED booking
            /\ cachedRoomsData' = <<>> /\ cacheTimestamp' = 0
            /\ req'[p].pc = "done"
            /\ req'[p].status = IF req[p].pc = "c_finish" THEN 201 ELSE 200]_vars

\* a booking is stored and its createBooking answered 201 while the activity
\* log has no record of it
C25_Witness ==
    /\ req[1].op = "create" /\ Answered(req[1], 201)
    /\ req[1].id \in DOMAIN booking
    /\ \A k \in DOMAIN activityLog : activityLog[k].entity_id # req[1].id

ReadOps == {"rooms", "available", "probe", "roomBookings"}

\* C27: getAllRooms, getAvailableRooms, checkBookingConflict and
\* getBookingsByRoomId leave every stored room, its status included when
\* night_rest is displayed, and every stored booking, its title and comment
\* included when they are redacted, unchanged; the rooms cache is the only
\* state a read changes, and only getAllRooms changes it.
C27_ReadsArePure ==
    [][\A p \in Connections :
         (req'[p] # req[p] /\ (req[p].op \in ReadOps \/ req'[p].op \in ReadOps)) =>
            /\ UNCHANGED <<room, booking, nextId, activityLog>>
            /\ (cachedRoomsData' # cachedRoomsData \/ cacheTimestamp' # cacheTimestamp)
                  => req'[p].op = "rooms"]_vars

\* a guest is shown night_rest for the active room 1 and 'Belegt' for its
\* booking, whose stored title is another
C27_Witness ==
    /\ req[1].op = "rooms" /\ req[1].user = NoUser
    /\ Answered(req[1], 200) /\ req[1].message = "cache_miss"
    /\ Val(req[1].data)[1].status = "night_rest" /\ room[1] = "active"
    /\ \E b \in BookingsOf(req[1]) : b.title = Belegt /\ booking[b.id].title # Belegt

\* the INSERT or UPDATE of the request has been executed and its response
\* has not been sent yet
Written(r) == r.pc \in {"c_finish", "u_finish_reschedule", "u_finish_simple"}

Success(r) == IF r.op = "create" THEN Answered(r, 201) ELSE Answered(r, 200)

\* C28: a createBooking or updateBooking request writes the bookings in at
\* most one of its steps, the step that writes is followed by the 201 (create)
\* or 200 (update) response and by no other, and no 201 or 200 is sent without
\* it: a create inserts exactly one row, an update changes at most the row it
\* names, and a request answered 400, 403, 404, 409 or 500 has left all
\* bookings as they were.  A request is answered once: after its response the
\* connection only returns to idle.
C28_NoPartialWrite ==
    [][\A p \in Connections :
         (req'[p] # req[p] /\ req'[p].op \in {"create", "update"}) =>
            /\ booking' # booking => (Written(req'[p]) /\ ~Written(req[p]))
            /\ Written(req[p]) => Success(req'[p])
            /\ Success(req'[p]) => Written(req[p])
            /\ (Written(req'[p]) /\ ~Written(req[p]) /\ req'[p].op = "create") =>
                  /\ req'[p].id \notin DOMAIN booking
                  /\ DOMAIN booking' = DOMAIN booking \cup {req'[p].id}
                  /\ \A i \in DOMAIN booking : booking'[i] = booking[i]
            /\ (Written(req'[p]) /\ ~Written(req[p]) /\ req'[p].op = "update") =>
                  /\ DOMAIN booking' = DOMAIN booking
                  /\ \A i \in DOMAIN booking \ {req'[p].id} : booking'[i] = booking[i]
            /\ req[p].pc = "done" => FALSE]_vars

\* an update to a room that does not exist was answered 500 and the booking
\* is at its old place
C28_Witness ==
    /\ req[1].op = "update" /\ Answered(req[1], 500)
    /\ req[1].id \in DOMAIN booking
    /\ booking[req[1].id].room_id # req[1].targetRoomId

\* checkBookingConflict answers in this step
ProbeAnswers(r, r2) == r.pc = "idle" /\ r2.op = "probe" /\ Answered(r2, 200)

\* the probe returns null exactly when no confirmed booking of the room
\* overlaps the interval, and a booking it returns is one of those that do
ProbeFollowsStore(r2) ==
    /\ r2.data = None <=> Colliding(r2.targetRoomId, r2.start, r2.end, 0) = {}
    /\ r2.data # None =>
          /\ Val(r2.data).id \in Colliding(r2.targetRoomId, r2.start, r2.end, 0)
          /\ Val(r2.data).room_id = r2.targetRoomId
          /\ Val(r2.data).start_time = booking[Val(r2.data).id].start_time
          /\ Val(r2.data).end_time = booking[Val(r2.data).id].end_time

\* C29: for every store state, room and interval with end > start,
\* checkBookingConflict returns null if and only if a createBooking for the
\* same room and interval that reaches the time-overlap gate against the same
\* state (valid body, room exists and is neither inactive nor in maintenance)
\* is not answered 409; a booking the probe returns is a confirmed booking of
\* that room that overlaps the interval.
C29_ProbeAgreesWithCreate ==
    [][\A p \in Connections :
         /\ ProbeAnswers(req[p], req'[p]) => ProbeFollowsStore(req'[p])
         /\ (req[p].pc = "c_check" /\ req'[p] # req[p]) =>
               (Answered(req'[p], 409) <=>
                   Colliding(req[p].targetRoomId, req[p].start, req[p].end, 0) # {})]_vars

\* a guest's probe returns a booking that a createBooking has inserted
C29_Witness ==
    /\ req[1].op = "probe" /\ req[1].user = NoUser /\ Answered(req[1], 200)
    /\ req[1].data # None /\ Val(req[1].data).id = 3

\* C29 as stated, for every room: the probe returns null if and only if the
\* createBooking for the same room and interval is not answered 409
C29_ProbeAgreesWithCreateEveryRoom ==
    [][\A p \in Connections :
         /\ ProbeAnswers(req[p], req'[p]) => ProbeFollowsStore(req'[p])
         /\ (/\ req'[p].op = "create" /\ req'[p] # req[p]
             /\ req[p].pc \in {"idle", "c_check"}
             /\ req'[p].pc \in {"done", "c_insert"}) =>
               LET body == req'[p].body
                   ts == Val(TimeStrings(body))
               IN  ts.end > ts.start =>
                      (Answered(req'[p], 409) <=>
                          Colliding(Val(body.room_id), ts.start, ts.end, 0) # {})]_vars

\* the room exists and its stored status is neither inactive nor maintenance
RoomOpen(R) == R \in DOMAIN room /\ room[R] \notin {"inactive", "maintenance"}

\* C30: when getAvailableRooms(date, s, e) with e > s returns room R, then on
\* the same store R passes the room gate of createBooking and no confirmed
\* booking of R overlaps [s, e), and a room whose create would be answered 409
\* is not returned; a createBooking with a valid title that passes the room
\* gate goes on to the overlap gate, one that finds no overlap there inserts
\* its row, and one that has inserted is answered 201.
C30_AvailableImpliesBookable ==
    [][\A p \in Connections :
         LET r == req[p]
             r2 == req'[p]
         IN  /\ (r.pc = "a_bookings" /\ Answered(r2, 200) /\ r.end > r.start) =>
                   /\ \A R \in Val(r2.data) :
                         RoomOpen(R) /\ Colliding(R, r.start, r.end, 0) = {}
                   /\ \A R \in DOMAIN room :
                         (RoomOpen(R) /\ Colliding(R, r.start, r.end, 0) # {})
                            => R \notin Val(r2.data)
             /\ (r.pc = "idle" /\ r2.op = "create" /\ RoomOpen(Val(r2.body.room_id))) =>
                   r2.pc = "c_check"
             /\ (r.pc = "c_check" /\ r2 # r
                   /\ Colliding(r.targetRoomId, r.start, r.end, 0) = {}) =>
                   r2.pc = "c_insert"
             /\ (r.pc = "c_insert" /\ r2 # r) =>
                   /\ r2.pc = "c_finish"
                   /\ r2.id \in DOMAIN booking' \ DOMAIN booking
                   /\ booking'[r2.id].room_id = r.targetRoomId
                   /\ booking'[r2.id].start_time = r.start
                   /\ booking'[r2.id].end_time = r.end
             /\ (r.pc = "c_finish" /\ r2 # r) => Answered(r2, 201)]_vars

\* the search for 10:00-11:00 returns room 2 alone: room 1 is booked then
C30_Witness ==
    /\ req[1].op = "available" /\ Answered(req[1], 200)
    /\ req[1].start = At(10, 0) /\ req[1].end = At(11, 0)
    /\ Val(req[1].data) = {2} /\ room[2] = "active"
====
